---------------------------- MODULE Spec2Model ----------------------------
(***************************************************************************)
(* A model of the remote-call core of the repository:                      *)
(*   - call_gpt_vision_json      (src/scripts/graphify_images.py)          *)
(*   - detect_and_reconstruct_graphs and its _process worker (same file)   *)
(*   - submit_marker_job, poll_until_complete and the part of main that    *)
(*     drives them (src/extraction_scripts/datalab_marker.py)              *)
(*   - execute_generated_code and _exec_child (graphify_images.py)         *)
(*   - the worker pool of detect_and_reconstruct_graphs with _process as   *)
(*     one step, and the output paths of _process with sanitize_filename   *)
(* Each component has its own specification (SpecVision, SpecBatch,        *)
(* SpecDatalab, SpecExec, SpecPool, SpecPaths); the variables of the other *)
(* components stay at their initial values.                                *)
(***************************************************************************)
EXTENDS Integers, Sequences, FiniteSets, TLC

VARIABLES
    \* ---- call_gpt_vision_json ----
    v_pc,        \* "request" (at the top of the attempt loop), "returned", "failed"
    attempt,     \* the loop variable of "for attempt in range(1, max_attempts + 1)"
    body,        \* the optional fields the request body still carries
    resp,        \* status code of the local "resp"; 0 while it is unbound
    v_requests,  \* the requests issued so far: the body fields of each
    v_sleeps,    \* the time.sleep calls so far: [after |-> attempt, secs |-> seconds]
    v_outcomes,  \* what the endpoint answered to each request
    v_error,     \* the exception the call ended with ("" when none)
    v_result     \* the parsed reply the call returned ("" when none)

visionVars == <<v_pc, attempt, body, resp, v_requests, v_sleeps, v_outcomes,
                v_error, v_result>>

VARIABLES
    \* ---- datalab_marker.py: main, submit_marker_job, poll_until_complete ----
    d_pc,            \* "submit", "poll", "save_response", "save_outputs", "save_images",
                     \* "save_extraction", "graphify", "done", "failed"
    timeout_s,       \* --timeout-s
    poll_interval_s, \* --poll-interval-s
    now,             \* time.time()
    start,           \* poll_until_complete's start
    submit_data,     \* the reply to the submission
    last_data,       \* poll_until_complete's last_data
    d_polls,         \* the status requests issued so far
    d_returned_at,   \* time.time() when poll_until_complete returned (-1: it has not)
    d_error,         \* the exception main ended with ("" when none)
    d_message,       \* the remote error message that exception carries
    d_artifacts,     \* the artifacts written so far
    d_last_kind,     \* what the last status request ended in ("none" before the first)
    d_checks,        \* the timeout checks made so far (line 110)
    d_sleeps         \* the interval sleeps made so far (line 112)

datalabVars == <<d_pc, timeout_s, poll_interval_s, now, start, submit_data, last_data,
                 d_polls, d_returned_at, d_error, d_message, d_artifacts, d_last_kind,
                 d_checks, d_sleeps>>

VARIABLES
    \* ---- detect_and_reconstruct_graphs ----
    b_pc,         \* "start", "run", "aborting", "returned", "aborted"
    dir_listing,  \* sorted(images_dir.iterdir()): TRUE for a file with a supported suffix
    has_max,      \* max_images is not None
    max_images,   \* (0 while it is None)
    concurrency,
    execute,
    images,       \* the local list "images"
    task,         \* per image: how far _process(image) is, and what it produced
    summary,      \* the local list "summary"
    b_files,      \* the files written under out_dir
    b_count,      \* "count" of the returned dict (-1 before the return)
    b_error       \* the exception that left detect_and_reconstruct_graphs ("" when none)

batchVars == <<b_pc, dir_listing, has_max, max_images, concurrency, execute, images, task,
               summary, b_files, b_count, b_error>>

VARIABLES
    \* ---- execute_generated_code and _exec_child ----
    x_pc,            \* the parent: "start", "join", "joined", "returned"
    exec_timeout_s,
    x_now,           \* seconds since execute_generated_code was entered
    child,           \* the process p: "unstarted", "top" (lines 192-199), "recreate"
                     \* (inside recreate(output_path)), "exited", "killed" (by
                     \* p.kill()), "terminated" (by a signal from elsewhere)
    q,               \* the messages on the result queue
    output_file,     \* a file exists at output_path
    defines,         \* what the code bound recreate_plot to ("": it has not finished)
    invoked,         \* recreate was called
    child_raised,    \* what was last raised in the child ("" when nothing)
    x_result         \* what execute_generated_code returned

execVars == <<x_pc, exec_timeout_s, x_now, child, q, output_file, defines, invoked,
              child_raised, x_result>>

VARIABLES
    \* ---- the worker pool of detect_and_reconstruct_graphs ----
    w_pc,          \* "run", "aborting", "returned", "aborted"
    w_concurrency, \* concurrency
    w_count,       \* len(images)
    fut,           \* per position in images: "none", "queued", "running", "done"
                   \* (_process returned), "Exception", "SystemExit" (it raised),
                   \* "collected"
    w_summary,     \* summary: the positions of the entries appended
    w_json,        \* per position: the write of the .graph.json file ("none": not
                   \* reached, "written", "failed")
    w_exec,        \* per position: execute_generated_code was called
    w_order,       \* the finished futures not yet yielded, in the order they finished
    w_started,     \* as_completed(futures) has been entered
    w_snapshot,    \* the futures found finished when it was entered, not yet yielded
    w_summaries    \* how many times summary.json was written

poolVars == <<w_pc, w_concurrency, w_count, fut, w_summary, w_json, w_exec, w_order,
              w_started, w_snapshot, w_summaries>>

VARIABLES
    \* ---- the files two workers of the pool write (_process, lines 262-286) ----
    img_path,   \* per worker: the name of the image its _process was given
    s_phase,    \* per worker: "paths", "save", "execute", "done"
    base,       \* per worker: the local "base" (<<>> before line 262)
    s_files     \* the files under out_dir: [path |-> ..., by |-> the worker that wrote it]

pathVars == <<img_path, s_phase, base, s_files>>

VARIABLES
    \* ---- datalab_marker.py: save_images_if_present ----
    i_pc,        \* "start", "loop", "manifest", "returned", "raised"
    i_images,    \* response.get("images"): "absent", "nondict" or "dict"
    i_n,         \* the number of entries of images
    i_entry,     \* the entry the loop took last
    i_outcomes,  \* per entry taken, in order, how it was resolved
    num_saved,
    num_urls,
    i_written,   \* image_urls.txt was written
    i_result     \* the pair returned (<<-1, -1>> before the return)

imageVars == <<i_pc, i_images, i_n, i_entry, i_outcomes, num_saved, num_urls, i_written,
               i_result>>

VARIABLES
    \* ---- datalab_marker.py: main, lines 415-426 ----
    e_pc,        \* "start", "done", "raised"
    e_schema,    \* page_schema_json is not None
    e_result,    \* per extraction key, in order: what the result holds under it
    e_artifact   \* the extraction artifact: the key it was taken from and its content

extractionVars == <<e_pc, e_schema, e_result, e_artifact>>

VARIABLES
    \* ---- api/extract_tables.py: handler ----
    h_pc,        \* "start", "returned" ("raised": an exception left handler)
    h_request,   \* the request
    h_failure,   \* the exception raised inside the try block ("" when none)
    h_found,     \* what extract_tables_from_pdf returned: "", "no_tables", "tables"
    h_response   \* the response returned

handlerVars == <<h_pc, h_request, h_failure, h_found, h_response>>

VARIABLES
    \* ---- the two command-line tools: main of datalab_marker.py and of ----
    \* ---- graphify_images.py, up to the first request                  ----
    c_pc,        \* "check_input", "check_key", "work", "exited"
    c_tool,      \* "datalab" or "graphify"
    c_input,     \* the input path: "missing", "wrong_type" or "ok"
    c_option,    \* --api-key
    c_env,       \* the environment variables the tool reads for its key, in order
    c_exit,      \* the exit code (-1 while the tool runs)
    c_out_dir,   \* the output directory was created
    c_requests,  \* the requests sent to the remote service
    c_artifacts  \* the output artifacts written

cliVars == <<c_pc, c_tool, c_input, c_option, c_env, c_exit, c_out_dir, c_requests,
             c_artifacts>>

vars == <<visionVars, datalabVars, batchVars, execVars, poolVars, pathVars, imageVars,
          extractionVars, handlerVars, cliVars>>

\* The variables of the other components, which a step of one component leaves alone.
notVision == <<datalabVars, batchVars, execVars, poolVars, pathVars, imageVars,
               extractionVars, handlerVars, cliVars>>
notDatalab == <<visionVars, batchVars, execVars, poolVars, pathVars, imageVars,
                extractionVars, handlerVars, cliVars>>
notBatch == <<visionVars, datalabVars, execVars, poolVars, pathVars, imageVars,
              extractionVars, handlerVars, cliVars>>
notExec == <<visionVars, datalabVars, batchVars, poolVars, pathVars, imageVars,
             extractionVars, handlerVars, cliVars>>
notPool == <<visionVars, datalabVars, batchVars, execVars, pathVars, imageVars,
             extractionVars, handlerVars, cliVars>>
notPaths == <<visionVars, datalabVars, batchVars, execVars, poolVars, imageVars,
              extractionVars, handlerVars, cliVars>>
notImages == <<visionVars, datalabVars, batchVars, execVars, poolVars, pathVars,
               extractionVars, handlerVars, cliVars>>
notExtraction == <<visionVars, datalabVars, batchVars, execVars, poolVars, pathVars,
                   imageVars, handlerVars, cliVars>>
notHandler == <<visionVars, datalabVars, batchVars, execVars, poolVars, pathVars,
                imageVars, extractionVars, cliVars>>
notCli == <<visionVars, datalabVars, batchVars, execVars, poolVars, pathVars,
            imageVars, extractionVars, handlerVars>>

-----------------------------------------------------------------------------
(* call_gpt_vision_json                                                    *)

max_attempts == 3

\* The optional fields of base_body that the compatibility shim may drop.
base_body == {"temperature", "response_format"}

Statuses == {200, 400, 429, 500, 503}

\* error.param of an error reply ("none": the key is absent or names another field).
Params == {"none", "temperature", "response_format"}

\* error.message of an error reply, as the set of the words the code looks for.
Messages == { {}, {"temperature"}, {"temperature", "unsupported"},
              {"response_format", "unsupported"} }

\* The "content" of a successful reply:
\*   "empty"     no choices[0].message.content, or an empty one
\*   "text"      content that json.loads rejects
\*   "nonobject" content that is JSON but not an object (a list, a number)
\*   "object"    a JSON object
\*   "badshape"  a reply on which data.get(...)[0].get(...) itself raises
Contents == {"empty", "text", "nonobject", "object", "badshape"}

NoErr == [shape |-> "none", param |-> "none", msg |-> {}]

\* The JSON body of a reply with status >= 400:
\*   shape "none": not a dict, or a dict without "error" (err = {})
\*   shape "bad" : "error" is not a dict (err.get raises AttributeError)
\*   shape "obj" : "error" is a dict with param and message
ErrBodies ==
    {NoErr, [shape |-> "bad", param |-> "none", msg |-> {}]}
    \cup [shape : {"obj"}, param : Params, msg : Messages]

\* What one requests.post can end in.
Outcomes ==
    {[kind |-> "timeout", status |-> 0, err |-> NoErr, content |-> "empty"],
     [kind |-> "transport", status |-> 0, err |-> NoErr, content |-> "empty"]}
    \cup [kind : {"nonjson"}, status : Statuses, err : {NoErr}, content : {"empty"}]
    \cup [kind : {"json"}, status : {s \in Statuses : s >= 400}, err : ErrBodies,
          content : {"empty"}]
    \cup [kind : {"json"}, status : {s \in Statuses : s < 400}, err : {NoErr},
          content : Contents]

\* Backoff starting at two seconds.
Backoff_FromTwo(a) == IF 2 ^ a < 8 THEN 2 ^ a ELSE 8

\* time.sleep(min(2 ** (attempt - 1), 8))
Backoff(a) == IF 2 ^ (a - 1) < 8 THEN 2 ^ (a - 1) ELSE 8

\* requests' Response.raise_for_status raises for 400 <= status < 600.
RaisesForStatus(s) == 400 <= s /\ s < 600

\* NamesTemperature with the test of error.message left out.
NamesTemperature_ParamOnly(err) == err.param = "temperature"

\* line 143
NamesTemperature(err) ==
    err.param = "temperature"
    \/ ("temperature" \in err.msg /\ "unsupported" \in err.msg)

\* line 152
NamesResponseFormat(err) ==
    err.param = "response_format"
    \/ ("response_format" \in err.msg /\ "unsupported" \in err.msg)

\* IsRetryableStatus retrying on every error status.
IsRetryableStatus_AnyError(s) == s >= 400

\* line 165
IsRetryableStatus(s) == s = 429 \/ (500 <= s /\ s < 600)

\* The exceptions of the call that are SystemExit, which "except Exception"
\* does not catch, and those that are subclasses of Exception.
SystemExitErrors == {"Timeout", "NonJson", "ApiError", "ApiErrorAfterRetries",
                     "EmptyContent", "ParseError", "FailedAfterRetries"}
ExceptionErrors == {"UnboundLocalError", "HTTPError", "AttributeError", "ShapeError"}

Continue(b, secs) == [next |-> "continue", body |-> b, secs |-> secs, error |-> "",
                      result |-> ""]
Raise(b, e) == [next |-> "raise", body |-> b, secs |-> 0, error |-> e, result |-> ""]
Return(b, r) == [next |-> "return", body |-> b, secs |-> 0, error |-> "", result |-> r]

\* lines 127-131: requests.exceptions.Timeout
OnTimeout(a, b) ==
    IF a = max_attempts THEN Raise(b, "Timeout") ELSE Continue(b, Backoff(a))

\* lines 132-136: any other exception of requests.post or resp.json();
\* r is the status of the local resp at that point (0: unbound).
OnOtherException(b, r) ==
    IF r = 0 THEN Raise(b, "UnboundLocalError")
    ELSE IF RaisesForStatus(r) THEN Raise(b, "HTTPError")
    ELSE Raise(b, "NonJson")

\* lines 138-171: a JSON reply with status >= 400
OnHttpError(a, b, o) ==
    IF o.err.shape = "bad" THEN Raise(b, "AttributeError")
    ELSE IF NamesTemperature(o.err) THEN
        IF a = max_attempts THEN Raise(b \ {"temperature"}, "ApiError")
        ELSE Continue(b \ {"temperature"}, Backoff(a))
    ELSE IF NamesResponseFormat(o.err) THEN
        IF a = max_attempts THEN Raise(b \ {"response_format"}, "ApiError")
        ELSE Continue(b \ {"response_format"}, Backoff(a))
    ELSE IF IsRetryableStatus(o.status) THEN
        IF a = max_attempts THEN Raise(b, "ApiErrorAfterRetries")
        ELSE Continue(b, Backoff(a))
    ELSE Raise(b, "ApiError")

\* lines 173-180: a JSON reply with status < 400
OnReply(b, o) ==
    CASE o.content = "badshape" -> Raise(b, "ShapeError")
      [] o.content = "empty" -> Raise(b, "EmptyContent")
      [] o.content = "text" -> Raise(b, "ParseError")
      [] OTHER -> Return(b, o.content)

\* One iteration of the attempt loop (lines 123-180) on outcome o.
Iteration(a, b, r, o) ==
    CASE o.kind = "timeout" -> OnTimeout(a, b)
      [] o.kind = "transport" -> OnOtherException(b, r)
      [] o.kind = "nonjson" -> OnOtherException(b, o.status)
      [] o.status >= 400 -> OnHttpError(a, b, o)
      [] OTHER -> OnReply(b, o)

InitVision ==
    /\ v_pc = "request"
    /\ attempt = 1
    /\ body = base_body
    /\ resp = 0
    /\ v_requests = <<>>
    /\ v_sleeps = <<>>
    /\ v_outcomes = <<>>
    /\ v_error = ""
    /\ v_result = ""

\* The state of the call while another component is being run.
IdleVision ==
    /\ v_pc = "idle"
    /\ attempt = 0
    /\ body = {}
    /\ resp = 0
    /\ v_requests = <<>>
    /\ v_sleeps = <<>>
    /\ v_outcomes = <<>>
    /\ v_error = ""
    /\ v_result = ""

\* One attempt: the request is sent with the current body, the endpoint answers o,
\* and the loop either goes on to the next attempt, returns or raises. Leaving the
\* loop after the last attempt is line 182.
Attempt(o) ==
    LET it == Iteration(attempt, body, resp, o) IN
    /\ v_pc = "request"
    /\ attempt <= max_attempts
    /\ v_requests' = Append(v_requests, body)
    /\ v_outcomes' = Append(v_outcomes, o)
    /\ resp' = IF o.kind \in {"timeout", "transport"} THEN resp ELSE o.status
    /\ body' = it.body
    /\ v_sleeps' = IF it.next = "continue"
                   THEN Append(v_sleeps, [after |-> attempt, secs |-> it.secs])
                   ELSE v_sleeps
    /\ v_result' = it.result
    /\ attempt' = IF it.next = "continue" THEN attempt + 1 ELSE attempt
    /\ IF it.next = "continue"
       THEN IF attempt < max_attempts
            THEN v_pc' = "request" /\ v_error' = ""
            ELSE v_pc' = "failed" /\ v_error' = "FailedAfterRetries"
       ELSE /\ v_pc' = IF it.next = "return" THEN "returned" ELSE "failed"
            /\ v_error' = it.error
    /\ UNCHANGED notVision

AttemptTimeout == \E o \in Outcomes : o.kind = "timeout" /\ Attempt(o)
AttemptTransportError == \E o \in Outcomes : o.kind = "transport" /\ Attempt(o)
AttemptNonJson == \E o \in Outcomes : o.kind = "nonjson" /\ Attempt(o)
AttemptHttpError ==
    \E o \in Outcomes : o.kind = "json" /\ o.status >= 400 /\ Attempt(o)
AttemptReply ==
    \E o \in Outcomes : o.kind = "json" /\ o.status < 400 /\ Attempt(o)

NextVision ==
    \/ AttemptTimeout
    \/ AttemptTransportError
    \/ AttemptNonJson
    \/ AttemptHttpError
    \/ AttemptReply

-----------------------------------------------------------------------------
(* datalab_marker.py: submit_marker_job, poll_until_complete, main         *)

\* The largest --timeout-s, --poll-interval-s and duration of one status request
\* (requests.get(..., timeout=120)) that are explored, in seconds, and the
\* largest number of status requests of one run.
MaxTimeout == 2
MaxInterval == 2
MaxRequestDuration == 1
MaxPolls == 4

\* A field of a JSON reply that is a flag: the key is absent, true or false.
Flags == {"absent", "true", "false"}

\* "request_check_url" of the reply to a submission.
CheckUrls == {"absent", "empty", "url"}

\* "status" of a poll reply; "absent" is a missing key or null (data.get gives None).
PollStatuses == {"absent", "processing", "complete", "failed"}

\* "error" of a poll reply: the key is absent, null, or a message.
RemoteErrors == {"absent", "null", "quota exceeded", "unreadable pdf"}

NoReply == [kind |-> "none", http |-> 0, success |-> "absent", check_url |-> "absent",
            status |-> "absent", error |-> "absent", markdown |-> FALSE]

\* What the POST of a submission can end in: an exception of requests.post, a body
\* that is not JSON, JSON that is not an object, or a JSON object.
SubmitReplies ==
    [kind : {"transport"}, http : {0}, success : {"absent"}, check_url : {"absent"},
     status : {"absent"}, error : {"absent"}, markdown : {FALSE}]
    \cup [kind : {"nonjson", "notdict"}, http : {200, 500}, success : {"absent"},
          check_url : {"absent"}, status : {"absent"}, error : {"absent"},
          markdown : {FALSE}]
    \cup [kind : {"json"}, http : {200, 400, 500}, success : Flags, check_url : CheckUrls,
          status : {"absent"}, error : {"absent"}, markdown : {FALSE}]

\* What one GET of the status can end in.
PollReplies ==
    [kind : {"transport"}, http : {0}, success : {"absent"}, check_url : {"absent"},
     status : {"absent"}, error : {"absent"}, markdown : {FALSE}]
    \cup [kind : {"nonjson", "notdict"}, http : {200, 500}, success : {"absent"},
          check_url : {"absent"}, status : {"absent"}, error : {"absent"},
          markdown : {FALSE}]
    \cup [kind : {"json"}, http : {200}, success : Flags, check_url : {"absent"},
          status : PollStatuses, error : RemoteErrors, markdown : BOOLEAN]

\* lines 88-95 and 114-120: resp.json() raised
OnNonJson(http) == IF RaisesForStatus(http) THEN "HTTPError" ELSE "NonJson"

\* SubmitError without the test of request_check_url.
SubmitError_NoUrlCheck(r) ==
    IF r.http >= 400 \/ r.success # "true" THEN "SubmissionFailed" ELSE ""

\* lines 97-102: the exception submit_marker_job raises on a JSON object ("" when
\* it returns the object)
SubmitError(r) ==
    IF r.http >= 400 \/ r.success # "true" THEN "SubmissionFailed"
    ELSE IF r.check_url # "url" THEN "MissingCheckUrl"
    ELSE ""

\* lines 85-102
submit_marker_job(r) ==
    CASE r.kind = "transport" -> "TransportError"
      [] r.kind = "nonjson" -> OnNonJson(r.http)
      [] r.kind = "notdict" -> "AttributeError"
      [] OTHER -> SubmitError(r)

\* TimedOut never finding the time over.
TimedOut_Never(t) == FALSE

\* line 110
TimedOut(t) == t - start > timeout_s

\* OnRequestError going on to the next iteration after a request that failed.
OnRequestError_Retry(r) == ""

\* lines 113-123: the exception one status request ends the loop with ("" when its
\* reply is a JSON object): requests.get raised, resp.json() raised, or data.get
\* was called on JSON that is no object
OnRequestError(r) ==
    CASE r.kind = "transport" -> "TransportError"
      [] r.kind = "nonjson" -> OnNonJson(r.http)
      [] r.kind = "notdict" -> "AttributeError"
      [] OTHER -> ""

\* AfterPoll going to the text of the result first.
AfterPoll_MarkdownFirst == "save_outputs"

\* main, lines 391-400: the step that follows poll_until_complete's return
AfterPoll == "save_response"

\* OnStatus leaving the loop on every status but "processing".
OnStatus_BreakUnlessProcessing(st) ==
    IF st = "processing" THEN "loop"
    ELSE IF st \in {"complete", "absent"} THEN "break"
    ELSE "raise"

\* OnStatus polling again on a status it does not know.
OnStatus_IgnoreUnknown(st) == IF st = "complete" THEN "break" ELSE "loop"

\* lines 123-128: what the loop does with the status of a JSON object
OnStatus(st) ==
    IF st = "complete" THEN "break"
    ELSE IF st \notin {"complete", "processing", "absent"} THEN "raise"
    ELSE "loop"

\* JobSucceeded taking an absent success flag for success.
JobSucceeded_DefaultTrue(r) == r.success # "false"

\* line 130
JobSucceeded(r) == r.success = "true"

\* line 131: last_data.get('error', 'Unknown error') inside the f-string
JobFailedMessage(r) ==
    CASE r.error = "absent" -> "Unknown error"
      [] r.error = "null" -> "None"
      [] OTHER -> r.error

InitDatalab ==
    /\ d_pc = "submit"
    /\ timeout_s \in 1..MaxTimeout
    /\ poll_interval_s \in 0..MaxInterval
    /\ now = 0
    /\ start = 0
    /\ submit_data = NoReply
    /\ last_data = NoReply
    /\ d_polls = 0
    /\ d_returned_at = -1
    /\ d_error = ""
    /\ d_message = ""
    /\ d_artifacts = {}
    /\ d_last_kind = "none"
    /\ d_checks = 0
    /\ d_sleeps = 0

IdleDatalab ==
    /\ d_pc = "idle"
    /\ timeout_s = 0
    /\ poll_interval_s = 0
    /\ now = 0
    /\ start = 0
    /\ submit_data = NoReply
    /\ last_data = NoReply
    /\ d_polls = 0
    /\ d_returned_at = -1
    /\ d_error = ""
    /\ d_message = ""
    /\ d_artifacts = {}
    /\ d_last_kind = "none"
    /\ d_checks = 0
    /\ d_sleeps = 0

Fail(e, m) ==
    /\ d_pc' = "failed"
    /\ d_error' = e
    /\ d_message' = m

\* main, lines 384-391: the submission; poll_until_complete is entered (line 107)
\* only with the check URL of a submission that returned.
Submit ==
    /\ d_pc = "submit"
    /\ \E r \in SubmitReplies :
        /\ submit_data' = r
        /\ IF submit_marker_job(r) = ""
           THEN /\ d_pc' = "poll"
                /\ start' = now
                /\ UNCHANGED <<d_error, d_message>>
           ELSE /\ Fail(submit_marker_job(r), "")
                /\ UNCHANGED start
        /\ UNCHANGED <<timeout_s, poll_interval_s, now, last_data, d_polls,
                       d_returned_at, d_artifacts, d_last_kind, d_checks, d_sleeps>>
        /\ UNCHANGED notDatalab

\* lines 110-111: the timeout check at the top of an iteration fails
PollTimeout ==
    /\ d_pc = "poll"
    /\ TimedOut(now)
    /\ Fail("PollTimeout", "")
    /\ d_checks' = d_checks + 1
    /\ UNCHANGED <<timeout_s, poll_interval_s, now, start, submit_data, last_data,
                   d_polls, d_returned_at, d_artifacts, d_last_kind, d_sleeps>>
    /\ UNCHANGED notDatalab

\* lines 110-132: one iteration whose timeout check passes: the sleep, the status
\* request (which takes dur seconds and is answered r), and what follows from r.
PollTick ==
    /\ d_pc = "poll"
    /\ ~TimedOut(now)
    /\ d_polls < MaxPolls
    /\ d_checks' = d_checks + 1
    /\ d_sleeps' = d_sleeps + 1
    /\ d_polls' = d_polls + 1
    /\ \E dur \in 0..MaxRequestDuration :
          /\ now' = now + poll_interval_s + dur
          /\ \E r \in PollReplies :
                /\ d_last_kind' = r.kind
                /\ last_data' = IF r.kind \in {"json", "notdict"} THEN r ELSE last_data
                /\ IF OnRequestError(r) # ""
                   THEN Fail(OnRequestError(r), "") /\ UNCHANGED d_returned_at
                   ELSE CASE OnStatus(r.status) = "raise" ->
                               Fail("UnexpectedStatus", "") /\ UNCHANGED d_returned_at
                          [] OnStatus(r.status) = "loop" ->
                               UNCHANGED <<d_pc, d_error, d_message, d_returned_at>>
                          [] OTHER ->
                               IF JobSucceeded(r)
                               THEN /\ d_pc' = AfterPoll
                                    /\ d_returned_at' = now + poll_interval_s + dur
                                    /\ UNCHANGED <<d_error, d_message>>
                               ELSE /\ Fail("JobFailed", JobFailedMessage(r))
                                    /\ UNCHANGED d_returned_at
    /\ UNCHANGED <<timeout_s, poll_interval_s, start, submit_data, d_artifacts>>
    /\ UNCHANGED notDatalab

\* One of main's steps after the result: it writes its artifact, has nothing to
\* write, or ends main with the exception a failing write or call raises.
MainStep(pc, next, artifact, err, ends) ==
    \E o \in ends :
        /\ d_pc = pc
        /\ IF o = "raised"
           THEN Fail(err, "") /\ UNCHANGED d_artifacts
           ELSE /\ d_pc' = next
                /\ d_artifacts' = IF o = "written" THEN d_artifacts \cup {artifact}
                                  ELSE d_artifacts
                /\ UNCHANGED <<d_error, d_message>>
        /\ UNCHANGED <<timeout_s, poll_interval_s, now, start, submit_data, last_data,
                       d_polls, d_returned_at, d_last_kind, d_checks, d_sleeps>>
        /\ UNCHANGED notDatalab

\* main, lines 398-400
SaveResponseJson ==
    MainStep("save_response", "save_outputs", "response.json", "ResponseWriteError",
             {"written", "raised"})

\* main, lines 402-407
SaveMarkdown ==
    MainStep("save_outputs", "save_images", "markdown", "MarkdownWriteError",
             IF last_data.markdown THEN {"written", "raised"} ELSE {"skipped"})

\* main, lines 409-413: save_images_if_present, unless --no-save-images; nothing
\* is written when the result has no images
SaveImages ==
    MainStep("save_images", "save_extraction", "images", "ImagesWriteError",
             {"written", "skipped", "raised"})

\* main, lines 415-426: the extraction, when a schema was given and a key matches
SaveExtraction ==
    MainStep("save_extraction", "graphify", "extractions.json", "ExtractionWriteError",
             {"written", "skipped", "raised"})

\* main, lines 428-491: detect_and_reconstruct_graphs under --graphify, when there
\* are local images, the module imports and a key is found
Graphify ==
    MainStep("graphify", "done", "graphify", "GraphifyError",
             {"written", "skipped", "raised"})

NextDatalab ==
    \/ Submit
    \/ PollTimeout
    \/ PollTick
    \/ SaveResponseJson
    \/ SaveMarkdown
    \/ SaveImages
    \/ SaveExtraction
    \/ Graphify

\* An iteration of the loop during which the clock advances: the sleep and the
\* request together take time.
PollTickAdvancing == PollTick /\ now' > now

NextDatalabClock ==
    \/ Submit
    \/ PollTimeout
    \/ PollTickAdvancing
    \/ SaveResponseJson
    \/ SaveMarkdown
    \/ SaveImages
    \/ SaveExtraction
    \/ Graphify

-----------------------------------------------------------------------------
(* detect_and_reconstruct_graphs and _process                              *)

\* The number of entries of images_dir and the largest --concurrency explored.
NFiles == 2
MaxConcurrency == 2

FileIds == 1..NFiles

\* lines 235-238: the supported images, in sorted order
iter_images(d) ==
    LET F[n \in 0..NFiles] ==
            IF n = 0 THEN <<>>
            ELSE IF d[n] THEN Append(F[n - 1], n) ELSE F[n - 1]
    IN F[NFiles]

\* SliceTo keeping one element too many.
SliceTo_OffByOne(s, m) ==
    LET k == IF m + 1 < Len(s) THEN (IF m + 1 > 0 THEN m + 1 ELSE 0) ELSE Len(s)
    IN SubSeq(s, 1, k)

\* Python's s[:m]
SliceTo(s, m) ==
    LET k == IF m >= 0 THEN (IF m < Len(s) THEN m ELSE Len(s))
             ELSE (IF Len(s) + m > 0 THEN Len(s) + m ELSE 0)
    IN SubSeq(s, 1, k)

\* lines 254-258
SelectImages(d, hm, m) == IF hm THEN SliceTo(iter_images(d), m) ELSE iter_images(d)

\* line 299
Pooled == concurrency > 1

\* What call_gpt_vision_json(gpt_cfg, img_path) ends in for one image: one of its
\* exceptions, a parsed reply that is not an object, or a parsed object with its
\* is_graph key and whether python_code is a string.
ClassifyOutcomes ==
    [kind : {"raise"}, error : SystemExitErrors \cup ExceptionErrors,
     is_graph : {"absent"}, code : {FALSE}]
    \cup [kind : {"nonobject"}, error : {""}, is_graph : {"absent"}, code : {FALSE}]
    \cup [kind : {"object"}, error : {""}, is_graph : Flags, code : BOOLEAN]

\* What execute_generated_code returns: (True, None) or (False, <message>).
ExecOutcomes == {"ok", "failed"}

\* Per image: the phase of _process, how the call ended ("": not yet, "raised",
\* "returned"), the result dict (is_graph, python_code is a string, the parts of
\* its error), what execute_generated_code returned ("none": it was not called),
\* and the entry's reconstructed field.
NoTask == [phase |-> "unselected", call |-> "", is_graph |-> FALSE, code |-> FALSE,
           saved |-> FALSE, error |-> {}, exec |-> "none", reconstructed |-> FALSE,
           raised |-> ""]

\* lines 266-274: which exception of the call "except Exception" catches
Caught(e) == e \in ExceptionErrors

\* line 274: result.setdefault("is_graph", False) on a result that is an object
SetDefault(f) == IF f = "absent" THEN "false" ELSE f

\* lines 266-281 of _process on call outcome c, the write of the .graph.json file
\* succeeding (w) or raising: the exception that leaves _process ("" when none) and
\* the result dict.
Classified(c, w) ==
    LET save == IF w THEN {} ELSE {"save"} IN
    CASE c.kind = "raise" /\ ~Caught(c.error) ->
            [raised |-> "SystemExit", is_graph |-> FALSE, saved |-> FALSE, error |-> {},
             code |-> FALSE]
      [] c.kind = "raise" ->
            [raised |-> "", is_graph |-> FALSE, saved |-> w,
             error |-> {"call"} \cup save, code |-> FALSE]
      [] c.kind = "nonobject" ->
            [raised |-> "Exception", is_graph |-> FALSE, saved |-> FALSE, error |-> {},
             code |-> FALSE]
      [] OTHER ->
            [raised |-> "", is_graph |-> (SetDefault(c.is_graph) = "true"), saved |-> w,
             error |-> save, code |-> c.code]

\* ShouldExecute without the test of is_graph.
ShouldExecute_AnyCode(r) == execute /\ r.code

\* line 285
ShouldExecute(r) == execute /\ r.is_graph /\ r.code

\* ReconstructedOk taking every finished execution for a success.
ReconstructedOk_Always(x) == TRUE

\* lines 286 and 291: reconstructed_ok, the first component of what
\* execute_generated_code returned
ReconstructedOk(x) == x = "ok"

\* lines 286 and 294: exec_error, the second component (None on success)
ExecError(x) == IF x = "ok" THEN {} ELSE {"exec"}

\* lines 288-295
EntryOf(i) ==
    [image |-> i, json |-> TRUE, reconstructed |-> task[i].reconstructed,
     is_graph |-> task[i].is_graph, error |-> task[i].error]

\* lines 306-313
WorkerErrorEntry(i) ==
    [image |-> i, json |-> FALSE, reconstructed |-> FALSE, is_graph |-> FALSE,
     error |-> {"worker"}]

Running == {i \in FileIds : task[i].phase \in {"classify", "execute"}}
Pending == {i \in FileIds : task[i].phase = "pending"}
Finished == {i \in FileIds : task[i].phase = "finished"}

InitBatch ==
    /\ b_pc = "start"
    /\ dir_listing \in [FileIds -> BOOLEAN]
    /\ has_max \in BOOLEAN
    /\ max_images \in (IF has_max THEN -1..(NFiles + 1) ELSE {0})
    /\ concurrency \in 0..MaxConcurrency
    /\ execute \in BOOLEAN
    /\ images = <<>>
    /\ task = [i \in FileIds |-> NoTask]
    /\ summary = <<>>
    /\ b_files = {}
    /\ b_count = -1
    /\ b_error = ""

IdleBatch ==
    /\ b_pc = "idle"
    /\ dir_listing = [i \in FileIds |-> FALSE]
    /\ has_max = FALSE
    /\ max_images = 0
    /\ concurrency = 0
    /\ execute = FALSE
    /\ images = <<>>
    /\ task = [i \in FileIds |-> NoTask]
    /\ summary = <<>>
    /\ b_files = {}
    /\ b_count = -1
    /\ b_error = ""

\* lines 251-258 (and, in pooled mode, line 301: every image is submitted)
StartBatch ==
    /\ b_pc = "start"
    /\ images' = SelectImages(dir_listing, has_max, max_images)
    /\ task' = [i \in FileIds |->
                   IF \E k \in 1..Len(images') : images'[k] = i
                   THEN [NoTask EXCEPT !.phase = "pending"] ELSE NoTask]
    /\ b_pc' = "run"
    /\ UNCHANGED <<dir_listing, has_max, max_images, concurrency, execute, summary,
                   b_files, b_count, b_error>>
    /\ UNCHANGED notBatch

\* WorkerFree with a pool that starts a thread for every submitted task.
WorkerFree_Unbounded(running, workers) == TRUE

\* line 300: ThreadPoolExecutor(max_workers=concurrency) runs at most concurrency
\* tasks at a time
WorkerFree(running, workers) == Cardinality(running) < workers

\* _process(p) is entered for the next image: by a free worker of the pool (which
\* goes on taking work while the "with" block is being left), or by the loop of
\* line 316 once the entry of the image before has been appended.
StartTask ==
    \E i \in Pending :
        /\ \A j \in Pending : i <= j
        /\ IF Pooled
           THEN b_pc \in {"run", "aborting"} /\ WorkerFree(Running, concurrency)
           ELSE b_pc = "run" /\ Running = {} /\ Finished = {}
        /\ task' = [task EXCEPT ![i].phase = "classify"]
        /\ UNCHANGED <<b_pc, dir_listing, has_max, max_images, concurrency, execute,
                       images, summary, b_files, b_count, b_error>>
        /\ UNCHANGED notBatch

\* lines 266-286 of _process: the call, the .graph.json file, the decision to execute
Classify ==
    \E i \in FileIds, c \in ClassifyOutcomes, w \in BOOLEAN :
        LET r == Classified(c, w) IN
        /\ b_pc \in {"run", "aborting"}
        /\ task[i].phase = "classify"
        /\ task' = [task EXCEPT ![i] =
                      [phase |-> IF r.raised = "" /\ ShouldExecute(r)
                                 THEN "execute" ELSE "finished",
                       call |-> IF c.kind = "raise" THEN "raised" ELSE "returned",
                       is_graph |-> r.is_graph, code |-> r.code, saved |-> r.saved,
                       error |-> r.error, exec |-> "none", reconstructed |-> FALSE,
                       raised |-> r.raised]]
        /\ b_files' = IF r.saved THEN b_files \cup {[kind |-> "json", image |-> i]}
                      ELSE b_files
        /\ UNCHANGED <<b_pc, dir_listing, has_max, max_images, concurrency, execute,
                       images, summary, b_count, b_error>>
        /\ UNCHANGED notBatch

\* lines 286-297 of _process: the execution and the entry
Execute ==
    \E i \in FileIds, x \in ExecOutcomes :
        /\ b_pc \in {"run", "aborting"}
        /\ task[i].phase = "execute"
        /\ task' = [task EXCEPT
                      ![i].phase = "finished",
                      ![i].exec = x,
                      ![i].reconstructed = ReconstructedOk(x),
                      ![i].error = IF task[i].error # {} THEN task[i].error
                                   ELSE ExecError(x)]
        /\ UNCHANGED <<b_pc, dir_listing, has_max, max_images, concurrency, execute,
                       images, summary, b_files, b_count, b_error>>
        /\ UNCHANGED notBatch

\* What the collecting thread does with a finished _process(i): lines 302-314 in
\* pooled mode (fut.result() re-raises what the worker raised), line 317 otherwise.
Collected(i) ==
    IF task[i].raised = "" THEN [next |-> "append", entry |-> EntryOf(i)]
    ELSE IF Pooled /\ task[i].raised = "Exception"
         THEN [next |-> "append", entry |-> WorkerErrorEntry(i)]
    ELSE [next |-> "raise", entry |-> WorkerErrorEntry(i)]

Collect ==
    \E i \in Finished :
        LET c == Collected(i) IN
        /\ b_pc = "run"
        /\ task' = [task EXCEPT ![i].phase = "collected"]
        /\ IF c.next = "append"
           THEN /\ summary' = Append(summary, c.entry)
                /\ UNCHANGED <<b_pc, b_error>>
           ELSE /\ b_pc' = IF Pooled THEN "aborting" ELSE "aborted"
                /\ b_error' = task[i].raised
                /\ UNCHANGED summary
        /\ UNCHANGED <<dir_listing, has_max, max_images, concurrency, execute, images,
                       b_files, b_count>>
        /\ UNCHANGED notBatch

\* line 300: leaving the "with" block on an exception waits for the workers
PoolShutdown ==
    /\ b_pc = "aborting"
    /\ Pending = {} /\ Running = {}
    /\ b_pc' = "aborted"
    /\ UNCHANGED <<dir_listing, has_max, max_images, concurrency, execute, images, task,
                   summary, b_files, b_count, b_error>>
    /\ UNCHANGED notBatch

\* lines 319-321
WriteSummary ==
    /\ b_pc = "run"
    /\ \A i \in FileIds : task[i].phase \in {"unselected", "collected"}
    /\ b_files' = b_files \cup {[kind |-> "summary", image |-> 0]}
    /\ b_count' = Len(summary)
    /\ b_pc' = "returned"
    /\ UNCHANGED <<dir_listing, has_max, max_images, concurrency, execute, images, task,
                   summary, b_error>>
    /\ UNCHANGED notBatch

NextBatch ==
    \/ StartBatch
    \/ StartTask
    \/ Classify
    \/ Execute
    \/ Collect
    \/ PoolShutdown
    \/ WriteSummary

-----------------------------------------------------------------------------
(* execute_generated_code and _exec_child                                  *)

\* The largest --exec-timeout-s explored, in seconds (main clamps it to >= 1).
MaxExecTimeout == 2

\* What running the generated code (compile and exec, lines 198-199) ends in: an
\* exception, a request to exit (sys.exit, raise SystemExit), or its end with
\* recreate_plot unbound, bound to something that is not callable, or callable.
CodeOutcomes == {"raise", "exit", "absent", "noncallable", "callable"}

\* What the call recreate(output_path) ends in.
RecreateOutcomes == {"raise", "exit", "return"}

\* The messages of _exec_child (lines 202, 209, 211) and of
\* execute_generated_code (lines 225, 229, 232).
NoRecreateMsg == "No recreate_plot(output_path: str) found"
ExecutionErrorMsg == "Execution error: ..."
TimedOutMsg == "Execution timed out after ...s"
NoResultMsg == "No result returned from execution"
UnknownErrorMsg == "Unknown execution error"

OkMessage == [ok |-> TRUE, error |-> ""]
ErrorMessage(m) == [ok |-> FALSE, error |-> m]

NoOutcome == [ok |-> FALSE, error |-> ""]

ChildAlive == child \in {"top", "recreate"}

\* HasEntryPoint taking whatever is bound to the name for the entry point.
HasEntryPoint_AnyBinding(d) == d # "absent"

\* lines 200-201: callable(recreate)
HasEntryPoint(d) == d = "callable"

\* ChildCatches with no handler in the child.
ChildCatches_Nothing(k) == FALSE

\* line 210: "except Exception" catches what the code raises, but not SystemExit
ChildCatches(k) == k = "Exception"

\* JoinElapsed of a join without a timeout.
JoinElapsed_NoTimeout == FALSE

\* line 218: the timeout of p.join(exec_timeout_s) has passed
JoinElapsed == x_now >= exec_timeout_s

\* OutcomeOf reporting success for every message.
OutcomeOf_AlwaysOk(res) == [ok |-> TRUE, error |-> ""]

\* lines 230-232: the outcome for a message taken from the queue
OutcomeOf(res) ==
    IF res.ok THEN [ok |-> TRUE, error |-> ""]
    ELSE [ok |-> FALSE, error |-> IF res.error # "" THEN res.error ELSE UnknownErrorMsg]

InitExec ==
    /\ x_pc = "start"
    /\ exec_timeout_s \in 1..MaxExecTimeout
    /\ x_now = 0
    /\ child = "unstarted"
    /\ q = <<>>
    /\ output_file = FALSE
    /\ defines = ""
    /\ invoked = FALSE
    /\ child_raised = ""
    /\ x_result = NoOutcome

IdleExec ==
    /\ x_pc = "idle"
    /\ exec_timeout_s = 0
    /\ x_now = 0
    /\ child = "unstarted"
    /\ q = <<>>
    /\ output_file = FALSE
    /\ defines = ""
    /\ invoked = FALSE
    /\ child_raised = ""
    /\ x_result = NoOutcome

\* What an exception of kind k raised in _exec_child leads to: the handler of line
\* 210 puts the error message, or the exception ends the process with nothing put.
ChildRaises(k) ==
    /\ child_raised' = k
    /\ q' = IF ChildCatches(k) THEN Append(q, ErrorMessage(ExecutionErrorMsg)) ELSE q
    /\ child' = "exited"

\* lines 215-217
StartChild ==
    /\ x_pc = "start"
    /\ x_pc' = "join"
    /\ child' = "top"
    /\ UNCHANGED <<exec_timeout_s, x_now, q, output_file, defines, invoked,
                   child_raised, x_result>>
    /\ UNCHANGED notExec

\* A second passes while the parent waits in p.join(exec_timeout_s); the clock is
\* not followed past the timeout, after which nothing reads it.
Tick ==
    /\ x_pc = "join"
    /\ x_now < exec_timeout_s
    /\ x_now' = x_now + 1
    /\ UNCHANGED <<x_pc, exec_timeout_s, child, q, output_file, defines, invoked,
                   child_raised, x_result>>
    /\ UNCHANGED notExec

\* _exec_child, lines 191-204: the generated code is compiled and run, and
\* recreate_plot is looked up.
ChildRunsCode ==
    \E c \in CodeOutcomes :
        /\ child = "top"
        /\ CASE c = "raise" -> ChildRaises("Exception") /\ UNCHANGED <<defines, invoked>>
             [] c = "exit" -> ChildRaises("SystemExit") /\ UNCHANGED <<defines, invoked>>
             [] c \in {"absent", "noncallable", "callable"} /\ ~HasEntryPoint(c) ->
                    /\ defines' = c
                    /\ q' = Append(q, ErrorMessage(NoRecreateMsg))
                    /\ child' = "exited"
                    /\ UNCHANGED <<invoked, child_raised>>
             [] c = "callable" /\ HasEntryPoint(c) ->
                    /\ defines' = c
                    /\ invoked' = TRUE
                    /\ child' = "recreate"
                    /\ UNCHANGED <<q, child_raised>>
             [] OTHER ->
                    \* calling what is not callable raises TypeError
                    /\ defines' = c
                    /\ invoked' = TRUE
                    /\ ChildRaises("Exception")
        /\ UNCHANGED <<x_pc, exec_timeout_s, x_now, output_file, x_result>>
        /\ UNCHANGED notExec

\* Inside recreate(output_path): the code writes the file.
ChildWritesFile ==
    /\ child = "recreate"
    /\ ~output_file
    /\ output_file' = TRUE
    /\ UNCHANGED <<x_pc, exec_timeout_s, x_now, child, q, defines, invoked,
                   child_raised, x_result>>
    /\ UNCHANGED notExec

\* _exec_child, lines 204-211: recreate(output_path) ends.
ChildRecreateEnds ==
    \E r \in RecreateOutcomes :
        /\ child = "recreate"
        /\ CASE r = "raise" -> ChildRaises("Exception")
             [] r = "exit" -> ChildRaises("SystemExit")
             [] OTHER -> /\ q' = Append(q, OkMessage)
                         /\ child' = "exited"
                         /\ UNCHANGED child_raised
        /\ UNCHANGED <<x_pc, exec_timeout_s, x_now, output_file, defines, invoked,
                       x_result>>
        /\ UNCHANGED notExec

\* The child is killed by a signal that is not the parent's.
ChildTerminated ==
    /\ ChildAlive
    /\ child' = "terminated"
    /\ UNCHANGED <<x_pc, exec_timeout_s, x_now, q, output_file, defines, invoked,
                   child_raised, x_result>>
    /\ UNCHANGED notExec

\* line 218: p.join(exec_timeout_s) returns, the child having ended or the timeout
\* having passed.
JoinReturns ==
    /\ x_pc = "join"
    /\ ~ChildAlive \/ JoinElapsed
    /\ x_pc' = "joined"
    /\ UNCHANGED <<exec_timeout_s, x_now, child, q, output_file, defines, invoked,
                   child_raised, x_result>>
    /\ UNCHANGED notExec

\* lines 219-225: the child is alive; it is killed and the timeout is reported.
KillChild ==
    /\ x_pc = "joined"
    /\ ChildAlive
    /\ child' = "killed"
    /\ x_result' = [ok |-> FALSE, error |-> TimedOutMsg]
    /\ x_pc' = "returned"
    /\ UNCHANGED <<exec_timeout_s, x_now, q, output_file, defines, invoked, child_raised>>
    /\ UNCHANGED notExec

\* lines 219 and 226-232: the child has ended; its message, if any, is the outcome.
GetResult ==
    /\ x_pc = "joined"
    /\ ~ChildAlive
    /\ IF q = <<>>
       THEN /\ x_result' = [ok |-> FALSE, error |-> NoResultMsg]
            /\ UNCHANGED q
       ELSE /\ x_result' = OutcomeOf(Head(q))
            /\ q' = Tail(q)
    /\ x_pc' = "returned"
    /\ UNCHANGED <<exec_timeout_s, x_now, child, output_file, defines, invoked,
                   child_raised>>
    /\ UNCHANGED notExec

NextParent ==
    \/ StartChild
    \/ JoinReturns
    \/ KillChild
    \/ GetResult

NextExec ==
    \/ StartChild
    \/ Tick
    \/ ChildRunsCode
    \/ ChildWritesFile
    \/ ChildRecreateEnds
    \/ ChildTerminated
    \/ JoinReturns
    \/ KillChild
    \/ GetResult

-----------------------------------------------------------------------------
(* The worker pool of detect_and_reconstruct_graphs (lines 299-321); _process *)
(* is taken in two steps, up to the classification file and from there on    *)

\* The largest number of images and the largest concurrency explored.
NTasks == 3
MaxWorkers == 2

Positions == 1..NTasks

\* What _process(p) ends in: it returns its entry, or raises.
ProcessOutcomes == {"done", "Exception", "SystemExit"}

WQueued == {i \in Positions : fut[i] = "queued"}
WRunning == {i \in Positions : fut[i] = "running"}
WEnded == {i \in Positions : fut[i] \in ProcessOutcomes}

\* line 299
WPooled == w_concurrency > 1

\* The sequence order without the position i.
Without(order, i) == SelectSeq(order, LAMBDA j : j # i)

\* NextYielded yielding the futures in the order of submission.
NextYielded_Submitted(snapshot, order) ==
    {i \in Positions : fut[i] # "none" /\ \A j \in 1..(i - 1) : fut[j] = "collected"}

\* line 302, concurrent.futures.as_completed: the futures that were finished when
\* it was entered are yielded first, in the order of a set; the others are yielded
\* in the order they finish.
NextYielded(snapshot, order) ==
    IF snapshot # {} THEN snapshot
    ELSE IF order # <<>> THEN {Head(order)} ELSE {}

\* The images are selected and, in pooled mode, all submitted (line 301).
InitPool ==
    /\ w_pc = "run"
    /\ w_concurrency \in 0..MaxWorkers
    /\ w_count \in 0..NTasks
    /\ fut = [i \in Positions |-> IF i <= w_count THEN "queued" ELSE "none"]
    /\ w_summary = <<>>
    /\ w_json = [i \in Positions |-> "none"]
    /\ w_exec = [i \in Positions |-> FALSE]
    /\ w_order = <<>>
    /\ w_started = FALSE
    /\ w_snapshot = {}
    /\ w_summaries = 0

IdlePool ==
    /\ w_pc = "idle"
    /\ w_concurrency = 0
    /\ w_count = 0
    /\ fut = [i \in Positions |-> "none"]
    /\ w_summary = <<>>
    /\ w_json = [i \in Positions |-> "none"]
    /\ w_exec = [i \in Positions |-> FALSE]
    /\ w_order = <<>>
    /\ w_started = FALSE
    /\ w_snapshot = {}
    /\ w_summaries = 0

\* _process is entered for the next image in list order: by a free worker of the
\* pool (also while the "with" block is being left), or by the loop of line 316
\* once the call for the image before has returned and its entry is appended.
WorkerStarts ==
    \E i \in WQueued :
        /\ \A j \in WQueued : i <= j
        /\ IF WPooled
           THEN w_pc \in {"run", "aborting"} /\ WorkerFree(WRunning, w_concurrency)
           ELSE w_pc = "run" /\ WRunning = {} /\ WEnded = {}
        /\ fut' = [fut EXCEPT ![i] = "running"]
        /\ UNCHANGED <<w_pc, w_concurrency, w_count, w_summary, w_json, w_exec, w_order,
                       w_started, w_snapshot, w_summaries>>
        /\ UNCHANGED notPool

\* lines 261-281 of _process(p): the call returned or its Exception was caught, and
\* the write of the classification file succeeded or its exception was caught.
WorkerClassifies ==
    \E i \in WRunning, written \in BOOLEAN :
        /\ w_json[i] = "none"
        /\ w_json' = [w_json EXCEPT ![i] = IF written THEN "written" ELSE "failed"]
        /\ UNCHANGED <<w_pc, w_concurrency, w_count, fut, w_summary, w_exec, w_order,
                       w_started, w_snapshot, w_summaries>>
        /\ UNCHANGED notPool

\* _process(p) ends: it raises out of lines 266-274 (a SystemExit of the call, the
\* AttributeError of setdefault), or it goes on from line 283, with or without
\* the execution of line 286, and returns its entry.
WorkerEnds ==
    \E i \in WRunning, o \in ProcessOutcomes, executed \in BOOLEAN :
        /\ IF o = "done" THEN w_json[i] # "none" ELSE w_json[i] = "none" /\ ~executed
        /\ fut' = [fut EXCEPT ![i] = o]
        /\ w_exec' = [w_exec EXCEPT ![i] = executed]
        /\ w_order' = IF WPooled THEN Append(w_order, i) ELSE w_order
        /\ UNCHANGED <<w_pc, w_concurrency, w_count, w_summary, w_json, w_started,
                       w_snapshot, w_summaries>>
        /\ UNCHANGED notPool

\* line 302: the loop enters as_completed(futures)
AsCompleted ==
    /\ w_pc = "run"
    /\ WPooled
    /\ ~w_started
    /\ w_started' = TRUE
    /\ w_snapshot' = WEnded
    /\ UNCHANGED <<w_pc, w_concurrency, w_count, fut, w_summary, w_json, w_exec,
                   w_order, w_summaries>>
    /\ UNCHANGED notPool

\* lines 302-314 (the future as_completed yields, fut.result(), append) and line
\* 317: the entry of an ended call, or the worker-error entry of one that raised an
\* Exception in pooled mode, is appended; any other exception leaves the loop.
CollectResult ==
    \E i \in WEnded :
        /\ w_pc = "run"
        /\ WPooled => w_started /\ i \in NextYielded(w_snapshot, w_order)
        /\ fut' = [fut EXCEPT ![i] = "collected"]
        /\ w_order' = Without(w_order, i)
        /\ w_snapshot' = w_snapshot \ {i}
        /\ IF fut[i] = "done" \/ (WPooled /\ fut[i] = "Exception")
           THEN w_summary' = Append(w_summary, i) /\ UNCHANGED w_pc
           ELSE w_pc' = (IF WPooled THEN "aborting" ELSE "aborted")
                /\ UNCHANGED w_summary
        /\ UNCHANGED <<w_concurrency, w_count, w_json, w_exec, w_started, w_summaries>>
        /\ UNCHANGED notPool

\* line 300: leaving the "with" block on an exception waits for the workers.
PoolExit ==
    /\ w_pc = "aborting"
    /\ WQueued = {} /\ WRunning = {}
    /\ w_pc' = "aborted"
    /\ UNCHANGED <<w_concurrency, w_count, fut, w_summary, w_json, w_exec, w_order,
                   w_started, w_snapshot, w_summaries>>
    /\ UNCHANGED notPool

\* lines 319-321: the loop is over; summary.json is written and the dict returned
PoolReturns ==
    /\ w_pc = "run"
    /\ WPooled => w_started
    /\ \A i \in Positions : fut[i] \in {"none", "collected"}
    /\ w_pc' = "returned"
    /\ w_summaries' = w_summaries + 1
    /\ UNCHANGED <<w_concurrency, w_count, fut, w_summary, w_json, w_exec, w_order,
                   w_started, w_snapshot>>
    /\ UNCHANGED notPool

NextPool ==
    \/ WorkerStarts
    \/ WorkerClassifies
    \/ WorkerEnds
    \/ AsCompleted
    \/ CollectResult
    \/ PoolExit
    \/ PoolReturns

-----------------------------------------------------------------------------
(* The output paths of _process (lines 262-264) and the files two workers of  *)
(* the pool write; a file name is the sequence of its characters              *)

\* The longest stem of an image name explored.
MaxStemLen == 2

\* The characters of the stems: a letter, a character outside [A-Za-z0-9_.-], a
\* dash and a dot.
StemChars == {"a", " ", "-", "."}

\* Two of SUPPORTED_IMAGE_EXTS
Exts == {<<".", "p", "n", "g">>, <<".", "j", "p", "g">>}

Stems == UNION {[1..n -> StemChars] : n \in 1..MaxStemLen}

ImageNames == {s \o e : s \in Stems, e \in Exts}

\* The two workers whose calls of _process overlap.
Workers == {1, 2}

\* pathlib's PurePath.stem: the name up to its last dot
stem(name) ==
    LET i == CHOOSE k \in 1..Len(name) :
                 name[k] = "." /\ \A j \in (k + 1)..Len(name) : name[j] # "."
    IN SubSeq(name, 1, i - 1)

\* The characters [A-Za-z0-9_.-] matches, among those that occur.
SafeChar(c) == c \in {"a", "g", "j", "n", "p", "_", ".", "-"}

RECURSIVE SkipUnsafe(_)
SkipUnsafe(s) ==
    IF s = <<>> \/ SafeChar(Head(s)) THEN s ELSE SkipUnsafe(Tail(s))

\* re.sub(r"[^A-Za-z0-9_.-]+", "-", name): every run of other characters becomes
\* one dash
RECURSIVE SubUnsafeRuns(_)
SubUnsafeRuns(s) ==
    IF s = <<>> THEN <<>>
    ELSE IF SafeChar(Head(s)) THEN <<Head(s)>> \o SubUnsafeRuns(Tail(s))
    ELSE <<"-">> \o SubUnsafeRuns(SkipUnsafe(Tail(s)))

RECURSIVE LStripDash(_)
LStripDash(s) ==
    IF s # <<>> /\ Head(s) = "-" THEN LStripDash(Tail(s)) ELSE s

RECURSIVE RStripDash(_)
RStripDash(s) ==
    IF s # <<>> /\ s[Len(s)] = "-" THEN RStripDash(SubSeq(s, 1, Len(s) - 1)) ELSE s

\* str.strip("-")
StripDash(s) == RStripDash(LStripDash(s))

\* lines 185-187
sanitize_filename(name) ==
    LET cleaned == StripDash(SubUnsafeRuns(name))
    IN IF cleaned = <<>> THEN <<"u", "n", "t", "i", "t", "l", "e", "d">> ELSE cleaned

\* lines 263-264: json_path and recon_path, as the file name under out_dir
json_path(b) == b \o <<".", "g", "r", "a", "p", "h", ".", "j", "s", "o", "n">>
recon_path(b) ==
    b \o <<".", "r", "e", "c", "o", "n", "s", "t", "r", "u", "c", "t", "e", "d",
           ".", "p", "n", "g">>

\* Two different images of images_dir are being processed by two workers.
InitPaths ==
    /\ img_path \in {f \in [Workers -> ImageNames] : f[1] # f[2]}
    /\ s_phase = [t \in Workers |-> "paths"]
    /\ base = [t \in Workers |-> <<>>]
    /\ s_files = {}

IdlePaths ==
    /\ img_path = [t \in Workers |-> <<>>]
    /\ s_phase = [t \in Workers |-> "idle"]
    /\ base = [t \in Workers |-> <<>>]
    /\ s_files = {}

\* lines 262-264
ComputePaths ==
    \E t \in Workers :
        /\ s_phase[t] = "paths"
        /\ base' = [base EXCEPT ![t] = sanitize_filename(stem(img_path[t]))]
        /\ s_phase' = [s_phase EXCEPT ![t] = "save"]
        /\ UNCHANGED <<img_path, s_files>>
        /\ UNCHANGED notPaths

\* line 278: the result is written to json_path (w), or the write raises
SaveJson ==
    \E t \in Workers, w \in BOOLEAN :
        /\ s_phase[t] = "save"
        /\ s_files' = IF w THEN s_files \cup {[path |-> json_path(base[t]), by |-> t]}
                      ELSE s_files
        /\ s_phase' = [s_phase EXCEPT ![t] = "execute"]
        /\ UNCHANGED <<img_path, base>>
        /\ UNCHANGED notPaths

\* lines 285-286: the generated code is not run, or it is run and writes recon_path
\* (w) or does not
Reconstruct ==
    \E t \in Workers, w \in BOOLEAN :
        /\ s_phase[t] = "execute"
        /\ s_files' = IF w THEN s_files \cup {[path |-> recon_path(base[t]), by |-> t]}
                      ELSE s_files
        /\ s_phase' = [s_phase EXCEPT ![t] = "done"]
        /\ UNCHANGED <<img_path, base>>
        /\ UNCHANGED notPaths

NextPaths ==
    \/ ComputePaths
    \/ SaveJson
    \/ Reconstruct

-----------------------------------------------------------------------------
(* datalab_marker.py: try_decode_base64_to_file, save_images_if_present    *)

\* The largest number of entries of "images" explored.
MaxEntries == 2

\* line 162: the sub-keys of a dict value, in the order they are tried
SubKeys == <<"data", "content", "base64", "b64">>

\* What a string to decode is: "good" when base64.b64decode accepts it and
\* out_path.write_bytes writes the file, "bad" when one of the two raises. What a
\* sub-key of a dict value holds: no string (the key is absent or its value is no
\* string) or a string.
Encodings == {"good", "bad"}
SubValues == {"nostr"} \cup Encodings

\* "url" of a dict value
UrlValues == {"absent", "nonstr", "str"}

NoSubs == [k \in 1..Len(SubKeys) |-> "nostr"]

\* One entry of images: its value is a string (raw base64 or not), a dict, or
\* something else (a number, a list, null).
Entries ==
    [kind : {"str"}, raw : Encodings, sub : {NoSubs}, url : {"absent"}]
    \cup [kind : {"dict"}, raw : {"bad"}, sub : [1..Len(SubKeys) -> SubValues],
          url : UrlValues]
    \cup [kind : {"other"}, raw : {"bad"}, sub : {NoSubs}, url : {"absent"}]

NoEntry == [kind |-> "none", raw |-> "bad", sub |-> NoSubs, url |-> "absent"]

\* lines 162-163: the first sub-key that holds a string (0 when none does)
FirstStringKey(e) ==
    IF \E k \in 1..Len(SubKeys) : e.sub[k] \in Encodings
    THEN CHOOSE k \in 1..Len(SubKeys) :
            /\ e.sub[k] \in Encodings
            /\ \A j \in 1..(k - 1) : e.sub[j] \notin Encodings
    ELSE 0

\* lines 149-169: an exception of b64decode or write_bytes gives False
try_decode_base64_to_file(e) ==
    CASE e.kind = "str" -> e.raw = "good"
      [] e.kind = "dict" ->
            /\ FirstStringKey(e) # 0
            /\ e.sub[FirstStringKey(e)] = "good"
      [] OTHER -> FALSE

\* line 201
HasUrl(e) == e.kind = "dict" /\ e.url = "str"

\* Resolve looking for a URL before it tries to decode.
Resolve_UrlFirst(e) ==
    IF HasUrl(e) THEN "deferred"
    ELSE IF try_decode_base64_to_file(e)
         THEN (IF e.kind = "str" THEN "saved_raw" ELSE "saved_subkey")
         ELSE "debug"

\* lines 195-208: how one entry is resolved
Resolve(e) ==
    IF try_decode_base64_to_file(e)
    THEN (IF e.kind = "str" THEN "saved_raw" ELSE "saved_subkey")
    ELSE IF HasUrl(e) THEN "deferred"
    ELSE "debug"

InitImages ==
    /\ i_pc = "start"
    /\ i_images \in {"absent", "nondict", "dict"}
    /\ i_n \in (IF i_images = "dict" THEN 0..MaxEntries ELSE {0})
    /\ i_entry = NoEntry
    /\ i_outcomes = <<>>
    /\ num_saved = 0
    /\ num_urls = 0
    /\ i_written = FALSE
    /\ i_result = <<-1, -1>>

IdleImages ==
    /\ i_pc = "idle"
    /\ i_images = "absent"
    /\ i_n = 0
    /\ i_entry = NoEntry
    /\ i_outcomes = <<>>
    /\ num_saved = 0
    /\ num_urls = 0
    /\ i_written = FALSE
    /\ i_result = <<-1, -1>>

\* lines 173-180: nothing to do unless images is a dict with entries
EnterImages ==
    /\ i_pc = "start"
    /\ IF i_images # "dict" \/ i_n = 0
       THEN i_pc' = "returned" /\ i_result' = <<0, 0>>
       ELSE i_pc' = "loop" /\ UNCHANGED i_result
    /\ UNCHANGED <<i_images, i_n, i_entry, i_outcomes, num_saved, num_urls, i_written>>
    /\ UNCHANGED notImages

\* lines 182-208: one iteration. Of its writes only that of the debug file (line
\* 208) is outside a handler: when it raises, save_images_if_present ends.
TakeEntry ==
    \E e \in Entries :
        /\ i_pc = "loop"
        /\ Len(i_outcomes) < i_n
        /\ i_entry' = e
        /\ \/ /\ Resolve(e) = "debug"
              /\ i_pc' = "raised"
              /\ UNCHANGED <<i_outcomes, num_saved, num_urls>>
           \/ /\ i_outcomes' = Append(i_outcomes, Resolve(e))
              /\ num_saved' = IF Resolve(e) \in {"saved_raw", "saved_subkey"}
                              THEN num_saved + 1 ELSE num_saved
              /\ num_urls' = IF Resolve(e) = "deferred" THEN num_urls + 1
                             ELSE num_urls
              /\ i_pc' = IF Len(i_outcomes) + 1 = i_n THEN "manifest" ELSE "loop"
        /\ UNCHANGED <<i_images, i_n, i_written, i_result>>
        /\ UNCHANGED notImages

\* lines 210-213
WriteManifest ==
    \E written \in BOOLEAN :
        /\ i_pc = "manifest"
        /\ IF num_urls > 0 /\ ~written
           THEN i_pc' = "raised" /\ UNCHANGED <<i_written, i_result>>
           ELSE /\ i_pc' = "returned"
                /\ i_written' = (num_urls > 0)
                /\ i_result' = <<num_saved, num_urls>>
        /\ UNCHANGED <<i_images, i_n, i_entry, i_outcomes, num_saved, num_urls>>
        /\ UNCHANGED notImages

NextImages ==
    \/ EnterImages
    \/ TakeEntry
    \/ WriteManifest

-----------------------------------------------------------------------------
(* datalab_marker.py: the extraction artifact of main                      *)

\* line 416
extraction_keys ==
    <<"json", "structured_output", "structured_data", "extractions", "extracted">>

\* What the result holds under a key: nothing (the key is absent or null), a
\* scalar (a string, a number, a flag), an object or an array, empty or not.
Payloads == {"absent", "scalar", "empty_object", "empty_array", "object", "array"}

NoArtifact == [key |-> 0, content |-> "absent"]

\* line 421: isinstance(val, (dict, list))
IsStructured(v) == v \in {"empty_object", "empty_array", "object", "array"}

\* lines 419-423: the key the loop breaks at (0 when it runs to its end)
ExtractionKey(res) ==
    IF \E k \in 1..Len(extraction_keys) : IsStructured(res[k])
    THEN CHOOSE k \in 1..Len(extraction_keys) :
            /\ IsStructured(res[k])
            /\ \A j \in 1..(k - 1) : ~IsStructured(res[j])
    ELSE 0

InitExtraction ==
    /\ e_pc = "start"
    /\ e_schema \in BOOLEAN
    /\ e_result \in [1..Len(extraction_keys) -> Payloads]
    /\ e_artifact = NoArtifact

IdleExtraction ==
    /\ e_pc = "idle"
    /\ e_schema = FALSE
    /\ e_result = [k \in 1..Len(extraction_keys) |-> "absent"]
    /\ e_artifact = NoArtifact

\* lines 417-426; save_json raises when the file cannot be written
Extract ==
    \E written \in BOOLEAN :
        /\ e_pc = "start"
        /\ IF e_schema /\ ExtractionKey(e_result) # 0
           THEN IF written
                THEN /\ e_artifact' = [key |-> ExtractionKey(e_result),
                                       content |-> e_result[ExtractionKey(e_result)]]
                     /\ e_pc' = "done"
                ELSE e_pc' = "raised" /\ UNCHANGED e_artifact
           ELSE e_pc' = "done" /\ UNCHANGED e_artifact
        /\ UNCHANGED <<e_schema, e_result>>
        /\ UNCHANGED notExtraction

NextExtraction == Extract

-----------------------------------------------------------------------------
(* api/extract_tables.py: handler                                          *)

Methods == {"OPTIONS", "GET", "PUT", "POST"}

\* request.json: the request has no such attribute, or it holds None (no JSON
\* body, or the body null), an array or an object.
JsonAttrs == {"noattr", "none", "array", "object"}

\* request.body: the request has no such attribute, or it holds None, text that is
\* not JSON, the text null, or the text of an object.
BodyAttrs == {"noattr", "none", "invalid", "null", "object"}

\* "pdf_data" of the object: absent, null, the empty string, a number, a string
\* that is no base64 of a PDF, or the base64 of a PDF.
PdfData == {"absent", "null", "empty", "number", "garbage", "pdf"}

Requests == [method : Methods, json : JsonAttrs, body : BodyAttrs, pdf_data : PdfData]

NoResponse == [status |-> 0, cors |-> FALSE, json |-> FALSE, success |-> "absent",
               excel_data |-> FALSE]

\* lines 14-20 and the json.dumps of every return statement
Response(status, success, excel) ==
    [status |-> status, cors |-> TRUE, json |-> TRUE, success |-> success,
     excel_data |-> excel]

\* lines 40-43: the exception parsing the body raises ("" when it gives data)
ParseError(req) ==
    IF req.json # "noattr" THEN ""
    ELSE CASE req.body = "none" -> "TypeError"
           [] req.body = "invalid" -> "JSONDecodeError"
           [] OTHER -> ""

\* lines 40-43: data
ParsedData(req) ==
    IF req.json # "noattr" THEN req.json
    ELSE CASE req.body = "noattr" -> "empty_object"
           [] req.body = "null" -> "none"
           [] OTHER -> "object"

\* lines 45-46: data.get on what is no object raises; otherwise pdf_data
GetPdfData(req) ==
    CASE ParsedData(req) \in {"none", "array"} -> "AttributeError"
      [] ParsedData(req) = "empty_object" -> "absent"
      [] OTHER -> req.pdf_data

\* line 48
Falsy(p) == p \in {"absent", "null", "empty"}

\* lines 59-62: the exception b64decode or pdfplumber.open raises on pdf_data
DecodeError(p) ==
    CASE p = "number" -> "TypeError"
      [] p = "garbage" -> "PDFSyntaxError"
      [] OTHER -> ""

\* lines 93-106
ErrorResponse == Response(500, "false", FALSE)

InitHandler ==
    /\ h_pc = "start"
    /\ h_request \in Requests
    /\ h_failure = ""
    /\ h_found = ""
    /\ h_response = NoResponse

IdleHandler ==
    /\ h_pc = "idle"
    /\ h_request = [method |-> "GET", json |-> "noattr", body |-> "noattr",
                    pdf_data |-> "absent"]
    /\ h_failure = ""
    /\ h_found = ""
    /\ h_response = NoResponse

Returns(r, failure, found) ==
    /\ h_pc' = "returned"
    /\ h_response' = r
    /\ h_failure' = failure
    /\ h_found' = found

\* lines 9-106: one call of handler; extract_tables_from_pdf and
\* create_excel_file return or raise
Handle ==
    \E extraction \in {"raise", "no_tables", "tables"}, excel \in {"raise", "ok"} :
        /\ h_pc = "start"
        /\ CASE h_request.method = "OPTIONS" ->
                  Returns(Response(200, "absent", FALSE), "", "")
             [] h_request.method # "POST" ->
                  Returns(Response(405, "absent", FALSE), "", "")
             [] ParseError(h_request) # "" ->
                  Returns(ErrorResponse, ParseError(h_request), "")
             [] GetPdfData(h_request) = "AttributeError" ->
                  Returns(ErrorResponse, "AttributeError", "")
             [] Falsy(GetPdfData(h_request)) ->
                  Returns(Response(400, "false", FALSE), "", "")
             [] DecodeError(GetPdfData(h_request)) # "" ->
                  Returns(ErrorResponse, DecodeError(GetPdfData(h_request)), "")
             [] extraction = "raise" ->
                  Returns(ErrorResponse, "ExtractionError", "")
             [] extraction = "no_tables" ->
                  Returns(Response(200, "false", FALSE), "", "no_tables")
             [] excel = "raise" ->
                  Returns(ErrorResponse, "ExcelError", "tables")
             [] OTHER ->
                  Returns(Response(200, "true", TRUE), "", "tables")
        /\ UNCHANGED h_request
        /\ UNCHANGED notHandler

NextHandler == Handle

-----------------------------------------------------------------------------
(* The command-line tools: the checks of main before any work              *)

\* The largest number of requests of one run explored.
MaxRequests == 2

Tools == {"datalab", "graphify"}

\* An option or environment variable: not given, the empty string, or a key.
KeyValues == {"absent", "empty", "key"}

\* datalab_marker.py line 38 (DATALAB_API_KEY) and graphify_images.py line 351
\* (GPT_API_KEY, OPENAI_API_KEY): the variables "or" goes through after --api-key
EnvVars(tool) == IF tool = "datalab" THEN 1..1 ELSE 1..2

\* HasCredential taking any run to have a key.
HasCredential_Always(tool, option, env) == TRUE

\* datalab_marker.py lines 38-39, graphify_images.py lines 351-352: "a or b" skips
\* None and the empty string
HasCredential(tool, option, env) ==
    \/ option = "key"
    \/ \E k \in EnvVars(tool) : env[k] = "key"

\* datalab_marker.py lines 354 and 40 (SystemExit with a message exits with 1),
\* graphify_images.py lines 345 and 354
ExitCode(tool, check) ==
    IF tool = "datalab" /\ check = "key" THEN 1 ELSE 2

InitCli ==
    /\ c_pc = "check_input"
    /\ c_tool \in Tools
    /\ c_input \in {"missing", "wrong_type", "ok"}
    /\ c_option \in KeyValues
    /\ c_env \in [1..2 -> KeyValues]
    /\ c_exit = -1
    /\ c_out_dir = FALSE
    /\ c_requests = 0
    /\ c_artifacts = 0

IdleCli ==
    /\ c_pc = "idle"
    /\ c_tool = "datalab"
    /\ c_input = "ok"
    /\ c_option = "absent"
    /\ c_env = [k \in 1..2 |-> "absent"]
    /\ c_exit = -1
    /\ c_out_dir = FALSE
    /\ c_requests = 0
    /\ c_artifacts = 0

Exit(code) ==
    /\ c_pc' = "exited"
    /\ c_exit' = code

\* datalab_marker.py lines 351-354 (exists and is_file), graphify_images.py lines
\* 342-345 (exists and is_dir)
CheckInput ==
    /\ c_pc = "check_input"
    /\ IF c_input = "ok" THEN c_pc' = "check_key" /\ UNCHANGED c_exit
       ELSE Exit(ExitCode(c_tool, "input"))
    /\ UNCHANGED <<c_tool, c_input, c_option, c_env, c_out_dir, c_requests, c_artifacts>>
    /\ UNCHANGED notCli

\* datalab_marker.py lines 356 and 37-43, graphify_images.py lines 351-354
CheckKey ==
    /\ c_pc = "check_key"
    /\ IF HasCredential(c_tool, c_option, c_env)
       THEN c_pc' = "work" /\ UNCHANGED c_exit
       ELSE Exit(ExitCode(c_tool, "key"))
    /\ UNCHANGED <<c_tool, c_input, c_option, c_env, c_out_dir, c_requests, c_artifacts>>
    /\ UNCHANGED notCli

\* datalab_marker.py line 359, graphify_images.py line 251
MakeOutDir ==
    /\ c_pc = "work"
    /\ ~c_out_dir
    /\ c_out_dir' = TRUE
    /\ UNCHANGED <<c_pc, c_tool, c_input, c_option, c_env, c_exit, c_requests,
                   c_artifacts>>
    /\ UNCHANGED notCli

\* datalab_marker.py lines 385-396, graphify_images.py line 267: a request
SendRequest ==
    /\ c_pc = "work"
    /\ c_out_dir
    /\ c_requests < MaxRequests
    /\ c_requests' = c_requests + 1
    /\ UNCHANGED <<c_pc, c_tool, c_input, c_option, c_env, c_exit, c_out_dir,
                   c_artifacts>>
    /\ UNCHANGED notCli

\* datalab_marker.py lines 398-426, graphify_images.py lines 277-320: an artifact
\* is written from what a request returned
WriteArtifact ==
    /\ c_pc = "work"
    /\ c_artifacts < c_requests
    /\ c_artifacts' = c_artifacts + 1
    /\ UNCHANGED <<c_pc, c_tool, c_input, c_option, c_env, c_exit, c_out_dir,
                   c_requests>>
    /\ UNCHANGED notCli

\* the work ends: main returns 0, or an exception ends the process with 1
Finish ==
    \E code \in {0, 1} :
        /\ c_pc = "work"
        /\ c_out_dir
        /\ Exit(code)
        /\ UNCHANGED <<c_tool, c_input, c_option, c_env, c_out_dir, c_requests,
                       c_artifacts>>
        /\ UNCHANGED notCli

NextCli ==
    \/ CheckInput
    \/ CheckKey
    \/ MakeOutDir
    \/ SendRequest
    \/ WriteArtifact
    \/ Finish

-----------------------------------------------------------------------------
(* The specifications                                                      *)

InitSpecVision ==
    /\ InitVision
    /\ IdleDatalab
    /\ IdleBatch
    /\ IdleExec
    /\ IdlePool
    /\ IdlePaths
    /\ IdleImages
    /\ IdleExtraction
    /\ IdleHandler
    /\ IdleCli

InitSpecDatalab ==
    /\ IdleVision
    /\ InitDatalab
    /\ IdleBatch
    /\ IdleExec
    /\ IdlePool
    /\ IdlePaths
    /\ IdleImages
    /\ IdleExtraction
    /\ IdleHandler
    /\ IdleCli

InitSpecBatch ==
    /\ IdleVision
    /\ IdleDatalab
    /\ InitBatch
    /\ IdleExec
    /\ IdlePool
    /\ IdlePaths
    /\ IdleImages
    /\ IdleExtraction
    /\ IdleHandler
    /\ IdleCli

InitSpecExec ==
    /\ IdleVision
    /\ IdleDatalab
    /\ IdleBatch
    /\ InitExec
    /\ IdlePool
    /\ IdlePaths
    /\ IdleImages
    /\ IdleExtraction
    /\ IdleHandler
    /\ IdleCli

InitSpecPool ==
    /\ IdleVision
    /\ IdleDatalab
    /\ IdleBatch
    /\ IdleExec
    /\ InitPool
    /\ IdlePaths
    /\ IdleImages
    /\ IdleExtraction
    /\ IdleHandler
    /\ IdleCli

InitSpecPaths ==
    /\ IdleVision
    /\ IdleDatalab
    /\ IdleBatch
    /\ IdleExec
    /\ IdlePool
    /\ InitPaths
    /\ IdleImages
    /\ IdleExtraction
    /\ IdleHandler
    /\ IdleCli

InitSpecImages ==
    /\ IdleVision
    /\ IdleDatalab
    /\ IdleBatch
    /\ IdleExec
    /\ IdlePool
    /\ IdlePaths
    /\ InitImages
    /\ IdleExtraction
    /\ IdleHandler
    /\ IdleCli

InitSpecExtraction ==
    /\ IdleVision
    /\ IdleDatalab
    /\ IdleBatch
    /\ IdleExec
    /\ IdlePool
    /\ IdlePaths
    /\ IdleImages
    /\ InitExtraction
    /\ IdleHandler
    /\ IdleCli

InitSpecHandler ==
    /\ IdleVision
    /\ IdleDatalab
    /\ IdleBatch
    /\ IdleExec
    /\ IdlePool
    /\ IdlePaths
    /\ IdleImages
    /\ IdleExtraction
    /\ InitHandler
    /\ IdleCli

InitSpecCli ==
    /\ IdleVision
    /\ IdleDatalab
    /\ IdleBatch
    /\ IdleExec
    /\ IdlePool
    /\ IdlePaths
    /\ IdleImages
    /\ IdleExtraction
    /\ IdleHandler
    /\ InitCli

SpecVision == InitSpecVision /\ [][NextVision]_vars

SpecDatalab == InitSpecDatalab /\ [][NextDatalab]_vars

SpecBatch == InitSpecBatch /\ [][NextBatch]_vars

SpecExec == InitSpecExec /\ [][NextExec]_vars

SpecPool == InitSpecPool /\ [][NextPool]_vars

SpecPaths == InitSpecPaths /\ [][NextPaths]_vars

SpecImages == InitSpecImages /\ [][NextImages]_vars

SpecExtraction == InitSpecExtraction /\ [][NextExtraction]_vars

SpecHandler == InitSpecHandler /\ [][NextHandler]_vars

SpecCli == InitSpecCli /\ [][NextCli]_vars

\* The parent is scheduled and time passes: every step of execute_generated_code
\* that can be taken is taken. Nothing is assumed of the generated code.
FairSpecExec == SpecExec /\ WF_vars(NextParent) /\ WF_vars(Tick)

\* main is scheduled, and time advances in every iteration of the poll loop. Nothing
\* is assumed of what the status endpoint answers.
FairSpecDatalab ==
    /\ InitSpecDatalab
    /\ [][NextDatalabClock]_vars
    /\ WF_vars(Submit \/ PollTimeout \/ PollTickAdvancing)

-----------------------------------------------------------------------------
(* The claims                                                              *)

\* C1 (stated as claimed; the code violates it): whatever fails for single images,
\* in sequential and in pooled mode, detect_and_reconstruct_graphs is never left by
\* an exception, and when it returns the summary file has been written.
C1_FailureNeverAbortsBatch ==
    /\ b_pc \notin {"aborting", "aborted"}
    /\ b_error = ""
    /\ b_pc = "returned" => [kind |-> "summary", image |-> 0] \in b_files

\* The images the claim calls selected: a supported image is selected when no
\* max_images is set, or when it is among the first max_images supported ones.
SelectedImages ==
    {i \in FileIds :
        /\ dir_listing[i]
        /\ has_max => Cardinality({j \in 1..i : dir_listing[j]}) <= max_images}

\* C2: when detect_and_reconstruct_graphs returns and max_images is unset or >= 0,
\* every selected image has exactly one entry in the summary, no entry is of another
\* image, and the returned count is the number of selected images.
C2_OneEntryPerSelectedImage ==
    (b_pc = "returned" /\ (has_max => max_images >= 0)) =>
        /\ \A i \in SelectedImages :
              Cardinality({k \in 1..Len(summary) : summary[k].image = i}) = 1
        /\ \A k \in 1..Len(summary) : summary[k].image \in SelectedImages
        /\ b_count = Cardinality(SelectedImages)

\* C2's case: a pooled run over a list that max_images truncated has returned.
C2_Witness ==
    /\ b_pc = "returned"
    /\ Pooled
    /\ has_max /\ max_images >= 1
    /\ Cardinality({i \in FileIds : dir_listing[i]}) > max_images
    /\ Len(summary) = max_images

\* C3: poll_until_complete returns only on a reply with status "complete" and a
\* true success flag; after a reply whose status is "processing" or absent it has
\* not returned: it is at the top of the loop again, or it has failed.
C3_ReturnsOnlyCompleteSuccess ==
    /\ d_returned_at >= 0 =>
          /\ last_data.kind = "json"
          /\ last_data.status = "complete"
          /\ last_data.success = "true"
    /\ (last_data.kind = "json" /\ last_data.status \in {"processing", "absent"}) =>
          /\ d_pc \in {"poll", "failed"}
          /\ d_returned_at = -1

\* C3's case: a result was returned after at least one reply that was not final.
C3_Witness ==
    /\ d_returned_at >= 0
    /\ d_polls >= 2
    /\ d_pc = "save_response"

\* C4 (stated as claimed; the code violates it): poll_until_complete never returns
\* a result later than timeout_s seconds after it started.
C4_ReturnsWithinTimeout ==
    d_returned_at >= 0 => d_returned_at - start <= timeout_s

\* C5: after a reply with a status other than "processing", "complete" or null,
\* poll_until_complete has failed with the unexpected-status error: it has returned
\* nothing, is not polling any more, and nothing has been written.
C5_UnexpectedStatusFailsAtOnce ==
    (last_data.kind = "json"
     /\ last_data.status \notin {"processing", "complete", "absent"}) =>
        /\ d_pc = "failed"
        /\ d_error = "UnexpectedStatus"
        /\ d_returned_at = -1
        /\ d_artifacts = {}

\* C5's case: the unexpected status came after an earlier poll.
C5_Witness ==
    /\ last_data.status = "failed"
    /\ d_polls >= 2
    /\ d_error = "UnexpectedStatus"

\* C6: after a reply with status "complete" whose success flag is false or absent,
\* main has failed with the job-failed error, which carries the "error" of that
\* reply ("Unknown error" when the reply has no such key; a null is carried as
\* Python prints it), and no artifact has been written.
C6_JobFailedCarriesRemoteError ==
    (last_data.kind = "json" /\ last_data.status = "complete"
     /\ last_data.success \in {"false", "absent"}) =>
        /\ d_pc = "failed"
        /\ d_error = "JobFailed"
        /\ d_message = (IF last_data.error = "absent" THEN "Unknown error"
                        ELSE IF last_data.error = "null" THEN "None"
                        ELSE last_data.error)
        /\ d_returned_at = -1
        /\ d_artifacts = {}

\* C6's case: a job that completed without success, with a remote message, after an
\* earlier poll.
C6_Witness ==
    /\ last_data.status = "complete"
    /\ last_data.success = "false"
    /\ last_data.error = "quota exceeded"
    /\ d_polls >= 2
    /\ d_error = "JobFailed"

\* The errors submit_marker_job can raise.
SubmissionErrors == {"SubmissionFailed", "MissingCheckUrl", "HTTPError", "NonJson",
                     "AttributeError", "TransportError"}

\* The submission the claim calls successful.
SubmissionAccepted ==
    /\ submit_data.kind = "json"
    /\ submit_data.http < 400
    /\ submit_data.success = "true"
    /\ submit_data.check_url = "url"

\* C7: once the submission has been answered, polling is entered only if the HTTP
\* status was below 400, the success flag true and request_check_url non-empty; in
\* every other case main has failed with an error of submit_marker_job and no
\* status request was ever issued.
C7_HandleOnlyFromAcceptedSubmission ==
    d_pc # "submit" =>
        /\ SubmissionAccepted => d_error \notin {"SubmissionFailed", "MissingCheckUrl"}
        /\ ~SubmissionAccepted =>
              /\ d_pc = "failed"
              /\ d_error \in SubmissionErrors
              /\ d_polls = 0
              /\ last_data = NoReply

\* C7's case: a reply that reports success but carries no check URL was refused.
C7_Witness ==
    /\ submit_data.kind = "json"
    /\ submit_data.http = 200
    /\ submit_data.success = "true"
    /\ submit_data.check_url = "empty"
    /\ d_pc = "failed"
    /\ d_error = "MissingCheckUrl"

\* The outcomes the claims call transient: a transport timeout, HTTP 429, HTTP 5xx.
TransientOutcome(o) ==
    \/ o.kind = "timeout"
    \/ /\ o.kind \in {"json", "nonjson"}
       /\ o.status = 429 \/ (o.status >= 500 /\ o.status <= 599)

\* C8 (stated as claimed; the code violates it): at most 3 requests are issued;
\* after a transient outcome of attempt n < 3 the call goes on to attempt n + 1,
\* whatever the body of the response; after a transient outcome of attempt 3 the
\* call has failed with one of its retries-exhausted errors.
C8_TransientFailuresAreRetried ==
    /\ Len(v_requests) <= 3
    /\ \A n \in 1..Len(v_outcomes) :
          TransientOutcome(v_outcomes[n]) =>
              IF n < 3
              THEN Len(v_requests) > n \/ (v_pc = "request" /\ attempt = n + 1)
              ELSE /\ v_pc = "failed"
                   /\ v_error \in {"Timeout", "ApiErrorAfterRetries", "ApiError"}

\* An error reply names field f as unsupported: by error.param, or by a message
\* that says so.
Names(err, f) == err.param = f \/ {f, "unsupported"} \subseteq err.msg

\* A 4xx response other than 429 that names neither optional field.
RejectedOutcome(o) ==
    /\ o.kind \in {"json", "nonjson"}
    /\ o.status >= 400 /\ o.status < 500 /\ o.status # 429
    /\ ~Names(o.err, "temperature")
    /\ ~Names(o.err, "response_format")

\* C9: after attempt n received a 4xx response other than 429 that names neither
\* temperature nor response_format, the call has failed (with the API error, with
\* the HTTP error of raise_for_status when the body is not JSON, or with the
\* AttributeError of an error that is no object): request n was the last one and no
\* sleep followed it.
C9_OtherClientErrorFailsAtOnce ==
    \A n \in 1..Len(v_outcomes) :
        RejectedOutcome(v_outcomes[n]) =>
            /\ v_pc = "failed"
            /\ v_error \in {"ApiError", "HTTPError", "AttributeError"}
            /\ Len(v_requests) = n
            /\ \A k \in 1..Len(v_sleeps) : v_sleeps[k].after < n

\* C9's case: the rejection came on the second attempt, after one retry.
C9_Witness ==
    /\ Len(v_outcomes) = 2
    /\ RejectedOutcome(v_outcomes[2])
    /\ v_outcomes[2].kind = "json"
    /\ Len(v_sleeps) = 1
    /\ v_pc = "failed"

\* A 400-class JSON error reply that names field f as unsupported.
ShimOutcome(o, f) ==
    /\ o.kind = "json"
    /\ o.status >= 400 /\ o.status < 500
    /\ o.err.shape = "obj"
    /\ Names(o.err, f)

\* A reply the call returns to its caller.
SuccessOutcome(o) == o.kind = "json" /\ o.status < 400 /\ o.content = "object"

\* What C10 says follows when attempt n named field f: the call goes on to attempt
\* n + 1 (of at most 3), no request after n carries f, nor will the next one, and
\* a success of attempt n + 1 is returned.
ShimRetried(n, f) ==
    /\ Len(v_requests) > n \/ (v_pc = "request" /\ attempt = n + 1)
    /\ Len(v_requests) <= 3
    /\ \A m \in (n + 1)..Len(v_requests) : f \notin v_requests[m]
    /\ v_pc = "request" => f \notin body
    /\ (Len(v_outcomes) > n /\ SuccessOutcome(v_outcomes[n + 1])) =>
          /\ v_pc = "returned"
          /\ Len(v_requests) = n + 1
          /\ v_result = v_outcomes[n + 1].content

\* C10 as claimed (the code violates it): for temperature and for response_format
\* alike, a 400-class error of attempt n < 3 that names the field makes attempt
\* n + 1 and every later request omit it.
C10_NamedFieldIsRemoved ==
    \A n \in 1..Len(v_outcomes), f \in base_body :
        (n < 3 /\ ShimOutcome(v_outcomes[n], f)) => ShimRetried(n, f)

\* C10 as amended: the same for temperature, and for response_format when the
\* error does not name temperature as well (temperature is tested first, and one
\* field is removed per attempt).
C10_NamedFieldIsRemovedOneAtATime ==
    \A n \in 1..Len(v_outcomes), f \in base_body :
        (/\ n < 3
         /\ ShimOutcome(v_outcomes[n], f)
         /\ f = "response_format" => ~Names(v_outcomes[n].err, "temperature")) =>
            ShimRetried(n, f)

\* C10's case: attempt 1 was refused with "Unsupported parameter: temperature" and
\* attempt 2, sent without temperature, succeeded and was returned.
C10_Witness ==
    /\ Len(v_outcomes) = 2
    /\ v_outcomes[1].status = 400
    /\ ShimOutcome(v_outcomes[1], "temperature")
    /\ v_outcomes[1].err.param = "none"
    /\ SuccessOutcome(v_outcomes[2])
    /\ v_requests[2] = {"response_format"}
    /\ v_pc = "returned"

\* A successful HTTP reply whose content is not a JSON object: no content, text
\* that json.loads rejects, or JSON of another type.
MalformedOutcome(o) ==
    /\ o.kind = "json"
    /\ o.status < 400
    /\ o.content \in {"empty", "text", "nonobject"}

\* C11 (stated as claimed; the code violates it): after attempt n received a
\* successful reply whose content is empty, is not JSON or is JSON but no object,
\* the call has failed with one of its malformed-reply errors, request n was the
\* last one, no sleep followed it, and nothing was returned to the caller.
C11_MalformedReplyIsRefused ==
    \A n \in 1..Len(v_outcomes) :
        MalformedOutcome(v_outcomes[n]) =>
            /\ v_pc = "failed"
            /\ v_error \in {"EmptyContent", "ParseError"}
            /\ v_result = ""
            /\ Len(v_requests) = n
            /\ \A k \in 1..Len(v_sleeps) : v_sleeps[k].after < n

\* The classification call of image i has ended in an exception.
CallFailed(i) == task[i].call = "raised"

\* The entries of image i in the summary.
EntriesOf(i) == {k \in 1..Len(summary) : summary[k].image = i}

\* The executor was started for image i.
ExecutorStarted(i) == task[i].phase = "execute" \/ task[i].exec # "none"

\* C12 (stated as claimed; the code violates it): for every image whose
\* classification call failed, _process goes on with a result that has is_graph
\* false and a non-empty error, the executor is not started for the image, and no
\* entry of the image is reconstructed or a graph.
C12_FailedCallIsRecordedAsNotGraph ==
    \A i \in FileIds :
        CallFailed(i) =>
            /\ task[i].raised = ""
            /\ ~task[i].is_graph
            /\ task[i].error # {}
            /\ ~ExecutorStarted(i)
            /\ \A k \in EntriesOf(i) : ~summary[k].reconstructed /\ ~summary[k].is_graph

\* C13: the executor is started for an image only when execute is set and the call
\* returned a result whose is_graph is true and whose python_code is a string.
C13_ExecutorOnlyForGraphWithCode ==
    \A i \in FileIds :
        ExecutorStarted(i) =>
            /\ execute
            /\ task[i].call = "returned"
            /\ task[i].raised = ""
            /\ task[i].is_graph
            /\ task[i].code

\* C13's case: with execute set, the executor ran for one image, and was not started
\* for another whose result had code but was no graph.
C13_Witness ==
    /\ execute
    /\ \E i \in FileIds : task[i].exec # "none"
    /\ \E j \in FileIds :
          /\ task[j].phase \in {"finished", "collected"}
          /\ task[j].call = "returned"
          /\ task[j].code /\ ~task[j].is_graph
          /\ task[j].exec = "none"

\* C14: every entry of the summary is reconstructed exactly when the executor was
\* run for its image and returned success; the entry of an image whose execution
\* failed is not reconstructed and has a non-empty error.
C14_ReconstructedIffExecutionSucceeded ==
    \A k \in 1..Len(summary) :
        LET e == summary[k] IN
        /\ e.reconstructed <=> task[e.image].exec = "ok"
        /\ task[e.image].exec = "failed" => (~e.reconstructed /\ e.error # {})

\* C14's case: the summary holds a reconstructed entry and the entry of an image
\* whose execution failed.
C14_Witness ==
    /\ \E k \in 1..Len(summary) : summary[k].reconstructed
    /\ \E k \in 1..Len(summary) :
          task[summary[k].image].exec = "failed" /\ summary[k].error = {"exec"}

\* C15 (stated as claimed; the code violates it): when execute_generated_code has
\* returned, success is true exactly when a file exists at output_path.
C15_SuccessIffFileExists ==
    x_pc = "returned" => (x_result.ok <=> output_file)

\* C16: execute_generated_code returns in every run, whatever the generated code
\* does; once it has returned the child is not running; when it finds the child
\* alive after the join it kills it and returns (False, timed out), and only then.
C16_AlwaysReturnsAndChildIsGone ==
    /\ <>(x_pc = "returned")
    /\ [](x_pc = "returned" => ~ChildAlive)
    /\ [](child = "killed" <=>
            (x_pc = "returned" /\ x_result = [ok |-> FALSE, error |-> TimedOutMsg]))
    /\ [][(x_pc = "joined" /\ ChildAlive /\ x_pc' # x_pc) => child' = "killed"]_vars

\* C16's case: the code hung inside recreate_plot after writing the file, and the
\* parent killed the child and returned.
C16_Witness ==
    /\ x_pc = "returned"
    /\ child = "killed"
    /\ invoked /\ output_file
    /\ x_now = exec_timeout_s

\* The generated code failed in the child: it raised, asked to exit, or was killed.
ChildFailed == child_raised # "" \/ child \in {"killed", "terminated"}

\* The error message of the child's handler has been sent: it is on the queue, or
\* the parent has taken it and returned it.
ErrorSentBack ==
    \/ q # <<>> /\ Head(q) = ErrorMessage(ExecutionErrorMsg)
    \/ x_pc = "returned" /\ x_result = [ok |-> FALSE, error |-> ExecutionErrorMsg]

\* What C17 says of every failure: the outcome returned is (False, error).
FailureIsAnOutcome ==
    (x_pc = "returned" /\ ChildFailed) => (~x_result.ok /\ x_result.error # "")

\* C17 as claimed (the code violates it): every failure of the generated code is
\* returned as (False, error), and whatever was raised in the child was caught
\* there and sent back as an error message.
C17_EveryRaiseIsSentBack ==
    /\ FailureIsAnOutcome
    /\ child_raised # "" => ErrorSentBack

\* C17 as amended: every failure is returned as (False, error); what the child
\* catches and sends back is an Exception, while a SystemExit ends the child with
\* nothing sent and the parent reports that no result was returned.
C17_EveryExceptionIsSentBack ==
    /\ FailureIsAnOutcome
    /\ child_raised = "Exception" => ErrorSentBack
    /\ (child_raised = "SystemExit" /\ x_pc = "returned") =>
           x_result = [ok |-> FALSE, error |-> NoResultMsg]

\* C17's case: recreate_plot raised after writing the file, and the parent returned
\* the child's error message.
C17_Witness ==
    /\ child_raised = "Exception"
    /\ invoked /\ output_file
    /\ x_pc = "returned"
    /\ x_result = [ok |-> FALSE, error |-> ExecutionErrorMsg]

\* C18: when the generated code ran to its end without binding recreate_plot to a
\* callable, the entry point is never invoked, no file is written at output_path,
\* and execute_generated_code returns (False, the message naming recreate_plot).
C18_MissingEntryPointIsReported ==
    defines \in {"absent", "noncallable"} =>
        /\ ~invoked
        /\ ~output_file
        /\ x_pc = "returned" => x_result = [ok |-> FALSE, error |-> NoRecreateMsg]

\* C18's case: the code bound recreate_plot to something that is not callable, and
\* the parent has returned.
C18_Witness ==
    /\ defines = "noncallable"
    /\ x_pc = "returned"
    /\ x_result.error = NoRecreateMsg

\* C19: at most max(1, concurrency) calls of _process run at the same time; with
\* concurrency <= 1 the call for an image starts only after the entries of all
\* images before it have been appended, and the summary lists the images in input
\* order.
C19_BoundedAndSequential ==
    /\ Cardinality(WRunning) <= (IF w_concurrency > 1 THEN w_concurrency ELSE 1)
    /\ w_concurrency <= 1 =>
          /\ \A k \in Positions :
                fut[k] \in {"running"} \cup ProcessOutcomes =>
                    /\ Len(w_summary) = k - 1
                    /\ \A j \in 1..(k - 1) : fut[j] = "collected"
          /\ \A k \in 1..Len(w_summary) : w_summary[k] = k
          /\ w_pc = "returned" => Len(w_summary) = w_count

\* C19's case: a pool of two workers is full while a third image waits.
C19_Witness ==
    /\ w_concurrency = 2
    /\ Cardinality(WRunning) = 2
    /\ WQueued # {}

\* C20 (stated as claimed; the code violates it): the two workers, which process
\* different images, never share an output path, and no file under out_dir is
\* written by both of them.
C20_WorkersWriteDisjointFiles ==
    /\ (s_phase[1] \notin {"idle", "paths"} /\ s_phase[2] \notin {"idle", "paths"}) =>
          /\ base[1] # base[2]
          /\ json_path(base[1]) # json_path(base[2])
          /\ recon_path(base[1]) # recon_path(base[2])
    /\ \A f \in s_files, g \in s_files : f.path = g.path => f.by = g.by


\* The exceptions that end main in a step after the raw response was saved.
LaterStepErrors ==
    {"MarkdownWriteError", "ImagesWriteError", "ExtractionWriteError", "GraphifyError"}

\* C21: once poll_until_complete has returned the result, the raw response is the
\* first artifact written: no other artifact exists without it, main is in no
\* later step without it, and whenever a later step has failed it is on disk.
C21_RawResponseIsWrittenFirst ==
    /\ d_artifacts # {} => "response.json" \in d_artifacts
    /\ d_pc \in {"save_outputs", "save_images", "save_extraction", "graphify", "done"} =>
          "response.json" \in d_artifacts
    /\ d_error \in LaterStepErrors => "response.json" \in d_artifacts

\* C21's case: writing the extraction failed after the text was written; the raw
\* response is there.
C21_Witness ==
    /\ d_pc = "failed"
    /\ d_error = "ExtractionWriteError"
    /\ d_artifacts = {"response.json", "markdown"}


\* The number of entries resolved in one of the ways S.
Resolved(S) == Cardinality({k \in 1..Len(i_outcomes) : i_outcomes[k] \in S})

\* Decoding the value of entry e, itself a string, gave a file.
RawSaved(e) == e.kind = "str" /\ e.raw = "good"

\* Decoding the string found under the sub-keys of entry e, the first of them
\* that holds a string, gave a file.
SubKeySaved(e) ==
    /\ e.kind = "dict"
    /\ \E k \in 1..Len(SubKeys) :
          e.sub[k] = "good" /\ \A j \in 1..(k - 1) : e.sub[j] \notin Encodings

\* C22: every entry the loop has taken is resolved in exactly one of four ways,
\* tried in order: saved from its raw base64 string, saved from the base64 string
\* under the sub-keys, deferred by its URL, written as a debug artifact; a later
\* way is used only when the earlier ones did not apply or failed. The pair
\* returned counts the entries saved and the entries deferred, and saved +
\* deferred + debug is the number of entries.
C22_EveryEntryResolvedOnce ==
    /\ \A k \in 1..Len(i_outcomes) :
          i_outcomes[k] \in {"saved_raw", "saved_subkey", "deferred", "debug"}
    /\ (i_pc \in {"loop", "manifest", "returned"} /\ i_outcomes # <<>>) =>
          LET o == i_outcomes[Len(i_outcomes)] IN
          /\ o = "saved_raw" <=> RawSaved(i_entry)
          /\ o = "saved_subkey" <=> SubKeySaved(i_entry)
          /\ o = "deferred" <=>
                /\ ~RawSaved(i_entry) /\ ~SubKeySaved(i_entry)
                /\ i_entry.kind = "dict" /\ i_entry.url = "str"
          /\ o = "debug" <=>
                /\ ~RawSaved(i_entry) /\ ~SubKeySaved(i_entry)
                /\ ~(i_entry.kind = "dict" /\ i_entry.url = "str")
    /\ i_pc = "returned" =>
          /\ i_result = <<Resolved({"saved_raw", "saved_subkey"}), Resolved({"deferred"})>>
          /\ Len(i_outcomes) = i_n
          /\ i_result[1] + i_result[2] + Resolved({"debug"}) = i_n

\* C22's case: of two entries the first was saved from a sub-key; the second
\* holds a string that does not decode under "data", and was deferred by its URL.
C22_Witness ==
    /\ i_pc = "returned"
    /\ i_outcomes = <<"saved_subkey", "deferred">>
    /\ i_entry.sub[1] = "bad"
    /\ i_result = <<1, 1>>


\* The first extraction key under which the result holds a non-empty object or
\* array (0 when there is none).
FirstNonEmptyKey ==
    IF \E k \in 1..Len(extraction_keys) : e_result[k] \in {"object", "array"}
    THEN CHOOSE k \in 1..Len(extraction_keys) :
            /\ e_result[k] \in {"object", "array"}
            /\ \A j \in 1..(k - 1) : e_result[j] \notin {"object", "array"}
    ELSE 0

\* C23 (stated as claimed; the code violates it): when a schema was given the
\* extraction artifact holds the value of the first extraction key whose value is
\* a non-empty object or array, keys with an empty or non-structured value being
\* skipped; without a schema, or when no key holds such a value, there is no
\* extraction artifact.
C23_FirstNonEmptyStructuredValue ==
    e_pc = "done" =>
        IF e_schema /\ FirstNonEmptyKey # 0
        THEN e_artifact = [key |-> FirstNonEmptyKey,
                           content |-> e_result[FirstNonEmptyKey]]
        ELSE e_artifact = NoArtifact


\* The POST request carries no pdf_data: it has no JSON body, its JSON body is
\* null, or its body is an object without pdf_data (or with a null or empty one).
WithoutPdfData(req) ==
    \/ req.json = "none"
    \/ req.json = "noattr" /\ req.body \in {"noattr", "none", "null"}
    \/ /\ req.json = "object" \/ (req.json = "noattr" /\ req.body = "object")
       /\ req.pdf_data \in {"absent", "null", "empty"}

\* C24 (stated as claimed; the code violates it): handler never raises, and what
\* it returns has a JSON body, the CORS headers and the status decided in order:
\* 200 for OPTIONS, 405 for another method that is not POST, 400 for a POST
\* without pdf_data, and otherwise 200 with success false when no table was
\* found, 200 with success true and excel_data when a table was, 500 with success
\* false when something failed.
C24_StatusDecidedInOrder ==
    /\ h_pc # "raised"
    /\ h_pc = "returned" =>
          /\ h_response.cors
          /\ h_response.json
          /\ CASE h_request.method = "OPTIONS" -> h_response.status = 200
               [] h_request.method # "POST" -> h_response.status = 405
               [] WithoutPdfData(h_request) -> h_response.status = 400
               [] OTHER ->
                    \/ /\ h_found = "no_tables"
                       /\ h_response = Response(200, "false", FALSE)
                    \/ /\ h_found = "tables" /\ h_failure = ""
                       /\ h_response = Response(200, "true", TRUE)
                    \/ /\ h_failure # ""
                       /\ h_response = Response(500, "false", FALSE)


\* The run has no usable input path.
InputMissing == c_input # "ok"

\* The run has no credential: no key in the option and none in the environment
\* variables of the tool.
NoCredential ==
    /\ c_option # "key"
    /\ \A k \in EnvVars(c_tool) : c_env[k] # "key"

\* C25: when the input path is missing or no credential is available, either tool
\* never gets to its work: nothing is created or written, no request is sent, and
\* the exit code, once it has exited, is not 0.
C25_ExitsBeforeAnyWork ==
    (c_pc # "idle" /\ (InputMissing \/ NoCredential)) =>
        /\ c_pc \in {"check_input", "check_key", "exited"}
        /\ c_requests = 0
        /\ c_artifacts = 0
        /\ ~c_out_dir
        /\ c_pc = "exited" => c_exit \in {1, 2}

\* C25's case: the input is there, the option is empty and the environment holds
\* no key; the datalab tool has exited with 1.
C25_Witness ==
    /\ c_tool = "datalab"
    /\ c_input = "ok"
    /\ c_option = "empty"
    /\ NoCredential
    /\ c_pc = "exited"
    /\ c_exit = 1


\* C26 (stated as claimed; the code violates it): the is_graph of every summary
\* entry is a boolean, and every reply the call returned parsed is back-filled
\* and goes on to the save and to the execution decision, which is taken on the
\* back-filled value.
C26_ParsedReplyIsBackFilled ==
    /\ \A k \in 1..Len(summary) : summary[k].is_graph \in BOOLEAN
    /\ \A i \in FileIds :
          task[i].call = "returned" =>
              /\ task[i].raised = ""
              /\ ExecutorStarted(i) => task[i].is_graph


\* C27 (as amended): every attempt after the first is preceded by one backoff
\* wait, made after the attempt before it, of 2^(n-1) seconds after attempt n: 1
\* second before the second attempt, 2 seconds before the third; no wait exceeds 8
\* seconds.
C27_BackoffDoublesFromOneSecond ==
    /\ \A n \in 2..Len(v_requests) :
          /\ Len(v_sleeps) >= n - 1
          /\ v_sleeps[n - 1] = [after |-> n - 1, secs |-> 2 ^ (n - 2)]
    /\ \A k \in 1..Len(v_sleeps) : v_sleeps[k].secs <= 8

\* C27's case: a timeout, then a 503, then a third attempt; the waits were 1 and 2
\* seconds.
C27_Witness ==
    /\ Len(v_requests) = 3
    /\ v_outcomes[1].kind = "timeout"
    /\ v_outcomes[2].kind = "json" /\ v_outcomes[2].status = 503
    /\ v_sleeps = <<[after |-> 1, secs |-> 1], [after |-> 2, secs |-> 2]>>

\* C27 as claimed: the wait before the second attempt is 2 seconds and it doubles
\* before the third; no wait exceeds 8 seconds.
C27_BackoffDoublesFromTwoSeconds ==
    /\ \A n \in 2..Len(v_requests) :
          /\ Len(v_sleeps) >= n - 1
          /\ v_sleeps[n - 1] = [after |-> n - 1, secs |-> 2 ^ (n - 1)]
    /\ \A k \in 1..Len(v_sleeps) : v_sleeps[k].secs <= 8


\* C28: every status request was preceded by one timeout check and one interval
\* sleep of its own (the only other check is the one that found the time over),
\* and once a request has failed at transport level or returned a body that is not
\* JSON, poll_until_complete has ended with that error: that request was the last.
C28_OneRequestPerIteration ==
    /\ d_sleeps = d_polls
    /\ d_checks = d_polls + (IF d_error = "PollTimeout" THEN 1 ELSE 0)
    /\ d_last_kind \in {"transport", "nonjson"} =>
          /\ d_pc = "failed"
          /\ d_error \in {"TransportError", "HTTPError", "NonJson"}
          /\ d_returned_at = -1

\* C28's case: the second status request failed at transport level.
C28_Witness ==
    /\ d_polls = 2
    /\ d_last_kind = "transport"
    /\ d_error = "TransportError"
    /\ d_checks = 2
    /\ d_sleeps = 2


\* The last status request was answered with a status of "processing" or with no
\* status.
StillProcessing ==
    /\ d_last_kind = "json"
    /\ last_data.status \in {"processing", "absent"}

\* C29: poll_until_complete never polls forever: it ends, and when the endpoint
\* has answered "processing" or no status to the end, it ends with the timeout
\* error; no status request is issued once more than timeout_s seconds have
\* elapsed at a timeout check.
C29_PollingEndsWithTimeout ==
    /\ <>(d_pc \notin {"submit", "poll"})
    /\ []((d_pc = "failed" /\ StillProcessing) => d_error = "PollTimeout")
    /\ [][(d_pc = "poll" /\ TimedOut(now)) => d_polls' = d_polls]_vars

\* C29's case: the endpoint answered "processing" three times and the fourth
\* timeout check ended the polling.
C29_Witness ==
    /\ d_error = "PollTimeout"
    /\ d_polls = 3
    /\ d_checks = 4
    /\ last_data.status = "processing"


\* A step in which the loop of line 302 takes the future of position i.
Yields(i) == WPooled /\ fut[i] \in ProcessOutcomes /\ fut'[i] = "collected"

TotalFailures == {"PollTimeout", "UnexpectedStatus", "JobFailed"}

\* C31: every run that reached the remote service and has ended has written the
\* full raw response, also when the job ended in total failure (poll timeout,
\* unrecognized status, a completed job with success = false).
C31_RawResponseOnEveryRun ==
    /\ d_pc = "done" => "response.json" \in d_artifacts
    /\ (d_pc = "failed" /\ d_error \in TotalFailures) => "response.json" \in d_artifacts


\* The child has sent the message that says ok: recreate_plot was callable, was
\* called and returned.
SentOk == child = "exited" /\ defines = "callable" /\ invoked /\ child_raised = ""

\* The child ended without a message: it was killed from outside or left by a
\* SystemExit.
SentNothing == child = "terminated" \/ (child = "exited" /\ child_raised = "SystemExit")

\* C32: in every execution the child sends at most one message and the parent
\* produces one outcome, which it never changes; when the parent found the child
\* ended and a message had arrived, the outcome is success if and only if the
\* message says ok; when it found the child ended and no message, the outcome is
\* (false, "No result returned from execution").
C32_OneMessageOneOutcome ==
    /\ [](/\ Len(q) <= 1
          /\ x_pc = "returned" /\ ~ChildAlive /\ child # "killed" =>
                /\ q = <<>>
                /\ x_result.ok <=> SentOk
                /\ SentNothing <=> x_result = [ok |-> FALSE, error |-> NoResultMsg]
          /\ x_pc # "returned" => x_result = NoOutcome)
    /\ [][/\ x_pc = "returned" => x_result' = x_result
          /\ (x_pc = "joined" /\ x_pc' = "returned" /\ ~ChildAlive) =>
                IF q = <<>>
                THEN x_result' = [ok |-> FALSE, error |-> NoResultMsg]
                ELSE /\ x_result'.ok <=> Head(q).ok
                     /\ x_result'.error # NoResultMsg]_vars

\* C32's case: the child's one message said ok and was taken before the timeout;
\* the outcome is success.
C32_Witness ==
    /\ x_pc = "returned"
    /\ SentOk
    /\ x_now < exec_timeout_s
    /\ q = <<>>
    /\ x_result = [ok |-> TRUE, error |-> ""]


\* The selected images whose call of _process raised, by their place in the list.
Raisers == {k \in 1..Len(images) : task[images[k]].raised # ""}

\* What the loop of lines 316-317 does with the per-image outcomes recorded in
\* task: it stops at the first image whose _process raises, with that exception;
\* with none it returns the entries of all the images.
SequentialEnd ==
    IF Raisers = {}
    THEN [pc |-> "returned", error |-> "",
          entries |-> {EntryOf(images[k]) : k \in 1..Len(images)}]
    ELSE LET first == CHOOSE k \in Raisers : \A j \in Raisers : k <= j
         IN [pc |-> "aborted", error |-> task[images[first]].raised, entries |-> {}]

\* C33: a run that has ended, in either mode, ended the way the sequential loop
\* ends on the same per-image outcomes: it returned exactly when no _process
\* raised, then with the same set of summary entries, and was left by the same
\* exception otherwise.
C33_ModesEndTheSameWay ==
    b_pc \in {"returned", "aborted"} =>
        /\ b_pc = SequentialEnd.pc
        /\ b_error = SequentialEnd.error
        /\ b_pc = "returned" =>
              {summary[k] : k \in 1..Len(summary)} = SequentialEnd.entries

=============================================================================
